---- MODULE Spec2Model ----
(***************************************************************************)
(* tools/fetch_assets.py: the asset-acquisition and manifest-build         *)
(* pipeline.  One run of main() is modelled from the parsed command line   *)
(* to the exit code, over a filesystem (ingest cache, extracted packs,     *)
(* extracted textures, manifest) that an earlier run or the user may have  *)
(* populated, and a network whose every request may fail.                  *)
(*                                                                         *)
(* Text is a TLA+ string where it is only stored or compared, and the      *)
(* tuple of its characters (Chars) where the code looks inside it          *)
(* (lower(), replace(), `in`, fnmatch).                                    *)
(***************************************************************************)
EXTENDS Integers, Sequences, FiniteSets, TLC

\* ------------------------------------------------------------------ text

\* the function f with its values computed once
Table(f) == f @@ <<>>

\* the characters of the text s, first to last
Chars(s) == [i \in 1..Len(s) |-> SubSeq(s, i, i)]

\* every text the program compares, reads or writes
KnownStrings ==
    { "kenney_building-kit", "kenney_city-kit-suburban", "kenney_city-kit-industrial",
      "kenney_ww2", "kenney_tanks", "Concrete023_2K-JPG.zip", "Asphalt012_2K-JPG.zip",
      "MetalPlates006_2K-JPG.zip", "MetalRusted001_2K-JPG.zip",
      "ConcreteDamaged001_2K-JPG.zip", "hangar_01.zip", "warehouse_01.zip",
      "RustedIron001_2K-JPG.zip", "OldConcrete001_2K-JPG.zip",
      "kenney_building-kit.zip", "kenney_city-kit-suburban.zip",
      "kenney_city-kit-industrial.zip", "kenney_ww2.zip", "kenney_tanks.zip",
      "Kenney_City-Kit-Suburban.zip", "kenney_city_kit_suburban.zip", "hangar-01.zip",
      "concrete023_2k-jpg.zip", "Concrete023_2K-JPG", "Asphalt012_2K-JPG",
      "MetalPlates006_2K-JPG", "MetalRusted001_2K-JPG", "ConcreteDamaged001_2K-JPG",
      "RustedIron001_2K-JPG", "OldConcrete001_2K-JPG", "polyhaven_hangar_01",
      "polyhaven_warehouse_01", "polyhaven_hangar_01.zip",
      "polyhaven_warehouse_01.zip", ".zip", "house_small.glb", "door_a.glb",
      "house_type01.glb", "old_house.glb", "Concrete023_2K-JPG_Color.jpg",
      "Concrete023_2K-JPG_NormalGL.jpg", "Asphalt012_2K-JPG_Color.jpg",
      "Concrete023_2K-JPG_Roughness.jpg", "/", "proj", "assets", "external", "packs",
      "textures", "ambientcg", "ingest", "_zips", "suburban", "industrial", "building",
      "kit", "nature", "pine", "fir", "spruce", "conifer", "palm", "*house*",
      "*building*", "*home*", "*residence*", "*hut*", "*door*", "*window*", "*fence*",
      "*road*", "*lamp*", "*sign*", "*car*", "*factory*", "*warehouse*", "*hangar*",
      "*shed*", "*container*", "*cabin*", "*shack*", "*small*", "*tree*", "*pine*",
      "*palm*", "*log*", "*stump*", "*leaf*", ".glb", ".gltf", ".fbx", ".obj",
      "Bricks079", "Concrete023", "MetalPlates006", "Grass004", "Asphalt012",
      "_2K-JPG", "*Color.jpg", "*NormalGL.jpg", "*Roughness.jpg", "*Metalness.jpg",
      "*AmbientOcclusion.jpg", "*Displacement.jpg", "*", "kenney",
      "https://kenney.nl/media/pages/assets/kenney_a.zip",
      "https://kenney\\.nl/media/pages/assets/kenney_a\\.zip",
      "https://kenney\\.nl/a\\.zip", "https://kenney", "nl/", "zip",
      "/media/pages/assets/", "kenney_",
      "https://cdn.polyhaven.com/asset_downloads/hangar_01.zip",
      "https://dl.polyhaven.org/file/ph-assets/Models/hangar_01.blend",
      "https://www.polyhaven.com/about", "https://cdn.polyhaven.com/asset_downloads/",
      "https://polyhaven.com/a/", "/download", "https://polyhaven.com/download_asset",
      "https://", "polyhaven", "/download?file=", "/get?file=",
      "https://api.polyhaven.com/", "/assets/", "download", "polyhaven.com/a/",
      "asset", "cdn", "polyhaven_", "hangar_01", "warehouse_01", "tank.glb",
      "hangar_01.fbx", "readme.txt", "Asphalt012_2K-JPG_Roughness.jpg",
      "MetalRusted001_2K-JPG_Color.jpg", "RustedIron001_2K-JPG_Color.jpg",
      "building_a.glb", "small_house_01.fbx", "house_door.fbx", "warehouse_02.fbx",
      "palm_tall.fbx", "generic_tree_01.fbx", "tree.glb", "palm.glb",
      "pine_shed_hut.glb", "01", "02", "03", "04", "05", "06", "07", "08", "09", "10",
      "11", "12", "13", "14", "15", "16", "17", "18", "19", "20", "21", "22", "23",
      "24", "25", "26", "27", "28", "29", "30", "31", "32", "33", "34",
      "https://kenney\\.nl/media/pages/assets/kenney_building-kit\\.zip",
      "https://kenney.nl/media/pages/assets/kenney_building-kit.zip",
      "https://polyhaven.com/a/hangar_01/download",
      "https://x.org/get?file=hangar_01.zip", "ww2_tanks.zip" }

UpperCase == <<"A","B","C","D","E","F","G","H","I","J","K","L","M",
               "N","O","P","Q","R","S","T","U","V","W","X","Y","Z">>
LowerCase == <<"a","b","c","d","e","f","g","h","i","j","k","l","m",
               "n","o","p","q","r","s","t","u","v","w","x","y","z">>

\* str.lower(), one character
lower_char(c) ==
    IF \E i \in DOMAIN UpperCase : UpperCase[i] = c
    THEN LowerCase[CHOOSE i \in DOMAIN UpperCase : UpperCase[i] = c]
    ELSE c

\* str.lower()
lower(cs) == [i \in 1..Len(cs) |-> lower_char(cs[i])]

\* str.replace(ch, '') for a one-character ch
strip_char(cs, ch) == SelectSeq(cs, LAMBDA c : c # ch)

\* sub in cs
contains(sub, cs) ==
    \E i \in 0..(Len(cs) - Len(sub)) : SubSeq(cs, i + 1, i + Len(sub)) = sub

\* str.endswith
endswith(cs, suf) ==
    /\ Len(suf) <= Len(cs)
    /\ SubSeq(cs, Len(cs) - Len(suf) + 1, Len(cs)) = suf

\* fnmatch.fnmatchcase for patterns whose only wildcard is '*'
RECURSIVE fnmatch(_, _)
fnmatch(name, pat) ==
    IF pat = <<>> THEN name = <<>>
    ELSE IF Head(pat) = "*"
         THEN \E k \in 0..Len(name) : fnmatch(SubSeq(name, k + 1, Len(name)), Tail(pat))
         ELSE /\ name # <<>>
              /\ Head(name) = Head(pat)
              /\ fnmatch(Tail(name), Tail(pat))

\* name.lower().replace('_', '').replace('-', '')
normalize(cs) == strip_char(strip_char(lower(cs), "_"), "-")

\* ingest_dir.glob("*.zip"): the entries of the cache a lookup iterates over
IsZip(fname) == endswith(Chars(fname), Chars(".zip"))

\* fetch_kenney_pack's lookup: pack.slug.lower() in zip_file.name.lower()
KenneyMatch(slug, fname) == contains(lower(Chars(slug)), lower(Chars(fname)))

\* fetch_ambientcg_textures' lookup: tex.file_name.lower() in zip_file.name.lower()
AmbientMatch(file_name, fname) == contains(lower(Chars(file_name)), lower(Chars(fname)))

\* fetch_polyhaven_asset's lookup: both sides lowercased with '_' and '-' removed
PolyhavenMatch(file_name, fname) ==
    contains(normalize(Chars(file_name)), normalize(Chars(fname)))

\* find_local_zip's first test (lines 235-242): both names lowercased with '_' and
\* '-' removed, then containment
NormalizedMatch(name, fname) == contains(normalize(Chars(name)), normalize(Chars(fname)))

\* ------------------------------------------------------------ catalogs

\* how many entries of KENNEY_PACKS and of AMBIENTCG_TEXTURES a run iterates over
NKenney == 2
NTextures == 2

Take(seq, n) == SubSeq(seq, 1, IF n < Len(seq) THEN n ELSE Len(seq))

KENNEY_PACKS == Take(<<
    [slug |-> "kenney_building-kit", page_url |-> "https://kenney.nl/assets/building-kit"],
    [slug |-> "kenney_city-kit-suburban", page_url |-> "https://kenney.nl/assets/city-kit-suburban"],
    [slug |-> "kenney_city-kit-industrial", page_url |-> "https://kenney.nl/assets/city-kit-industrial"]
    >>, NKenney)

AMBIENTCG_TEXTURES == Take(<<
    [file_name |-> "Concrete023_2K-JPG.zip"],
    [file_name |-> "Asphalt012_2K-JPG.zip"],
    [file_name |-> "MetalPlates006_2K-JPG.zip"]
    >>, NTextures)

\* of each optional catalog, the first entry
KENNEY_WW2_PACKS == << [slug |-> "kenney_ww2", page_url |-> "https://kenney.nl/assets/ww2"] >>

AMBIENTCG_WW2_TEXTURES == << [file_name |-> "MetalRusted001_2K-JPG.zip"] >>

POLYHAVEN_ASSETS ==
    << [file_name |-> "hangar_01.zip", url |-> "https://polyhaven.com/a/hangar_01"] >>

POLYHAVEN_TEXTURES == << [file_name |-> "RustedIron001_2K-JPG.zip"] >>

\* --------------------------------------------------------------- state

VARIABLES
    args,             \* the parsed command line (argparse namespace)
    has_root,         \* whether project.godot is found above --project
    pc,               \* where main() is: start, one of the six fetch loops, manifest, done
    idx,              \* index of the bundle the current loop is at
    ingest_exists,    \* assets/ingest/ exists
    ingest,           \* assets/ingest/: file name -> "good" (a zip archive) or "bad"
    packs_exists,     \* assets/external/packs/ exists
    packs,            \* assets/external/packs/: entry name -> what it holds
    textures_exists,  \* assets/external/textures/ambientcg/ exists
    textures,         \* assets/external/textures/ambientcg/: entry name -> what it holds
    manifest,         \* assets/external/manifest.json
    pack_dirs,        \* main's pack_dirs
    extracted_dirs,   \* fetch_ambientcg_textures' extracted_dirs
    exit_code,        \* -1 while running, then the process's exit code
    writes,           \* how often this run wrote the manifest
    last,             \* what the most recent bundle fetch did
    walked,           \* build_variant_pools' model_files: what its walks yielded
    call,             \* a helper function applied on its own: its name and arguments
    result            \* what that call returned, once it has returned

vars == <<args, has_root, pc, idx, ingest_exists, ingest, packs_exists, packs,
          textures_exists, textures, manifest, pack_dirs, extracted_dirs,
          exit_code, writes, last, walked, call, result>>

fs == <<ingest_exists, ingest, packs_exists, packs, textures_exists, textures, manifest>>

\* A directory entry holds the members of the archives unpacked into it, as the set
\* of the archives' file names; OldPack and OldTexture stand for what an earlier
\* run left there.  {} is an empty directory.
Empty == {}
OldPack == {"old pack"}
OldTexture == {"old texture"}
Zip == {"zip"}

\* Packs the classification is applied to besides those the catalogs' archives
\* hold: the pack of three buildings, the pack of a palm and a tree, the pack of
\* one tree, the pack of a tree named after two kinds, and a pack with more files
\* of a kind than a pool takes.
HousesPack == "pack of houses"
TreesPack == "pack of trees"
PlainTreePack == "pack of a plain tree"
MixedTreePack == "pack of a pine palm"
LargePack == "large pack"
ScenarioPacks == {HousesPack, TreesPack, PlainTreePack, MixedTreePack, LargePack}

\* how many subdirectories the large pack has; each holds one file of every kind
NFiles == 33
Numbers ==
    Take(<<"01", "02", "03", "04", "05", "06", "07", "08", "09", "10", "11", "12",
           "13", "14", "15", "16", "17", "18", "19", "20", "21", "22", "23", "24",
           "25", "26", "27", "28", "29", "30", "31", "32", "33", "34">>, NFiles)
LargeNames == <<"pine_shed_hut.glb", "palm.glb", "tree.glb">>

\* The files of a readable archive, by the name it has in the cache, and the files
\* an earlier run left in a directory; each file is the sequence of its path's parts.
Members(source) ==
    CASE source \in {"kenney_building-kit.zip"} ->
            { <<"house_small.glb">>, <<"door_a.glb">> }
      [] source \in {"kenney_city-kit-suburban.zip", "Kenney_City-Kit-Suburban.zip",
                     "kenney_city_kit_suburban.zip"} ->
            { <<"house_type01.glb">>, <<"building_a.glb">>, <<"readme.txt">> }
      [] source = HousesPack ->
            { <<"small_house_01.fbx">>, <<"house_door.fbx">>, <<"warehouse_02.fbx">> }
      [] source = TreesPack ->
            { <<"nature", "palm_tall.fbx">>, <<"nature", "generic_tree_01.fbx">> }
      [] source = PlainTreePack -> { <<"nature", "generic_tree_01.fbx">> }
      [] source = MixedTreePack ->
            { <<"nature", "pine_palm_01.fbx">>, <<"nature", "oak_tree_01.fbx">> }
      [] source = LargePack ->
            { <<"nature", Numbers[n], LargeNames[k]>> :
                n \in DOMAIN Numbers, k \in DOMAIN LargeNames }
      [] source \in {"kenney_ww2.zip"} -> { <<"tank.glb">> }
      [] source \in {"hangar_01.zip", "hangar-01.zip"} -> { <<"hangar_01.fbx">> }
      [] source \in {"Concrete023_2K-JPG.zip"} ->
            { <<"Concrete023_2K-JPG_Color.jpg">>, <<"Concrete023_2K-JPG_NormalGL.jpg">> }
      [] source \in {"Asphalt012_2K-JPG.zip"} ->
            { <<"Asphalt012_2K-JPG_Color.jpg">>, <<"Asphalt012_2K-JPG_Roughness.jpg">> }
      [] source \in {"MetalRusted001_2K-JPG.zip"} -> { <<"MetalRusted001_2K-JPG_Color.jpg">> }
      [] source \in {"RustedIron001_2K-JPG.zip"} -> { <<"RustedIron001_2K-JPG_Color.jpg">> }
      [] source \in OldPack -> { <<"old_house.glb">> }
      [] source \in OldTexture -> { <<"Concrete023_2K-JPG_Roughness.jpg">> }
      [] OTHER -> {}

\* the files under a directory entry
DirFiles(dirs, d) == UNION { Members(source) : source \in dirs[d] }

Put(f, k, v) == [x \in (DOMAIN f) \cup {k} |-> IF x = k THEN v ELSE f[x]]
NoFiles == [x \in {} |-> {}]

\* how many files the cache holds before the run
MaxCached == 1

\* files the user (or an earlier run) may have left in assets/ingest/
CacheUniverse ==
    { "Kenney_City-Kit-Suburban.zip", "kenney_city_kit_suburban.zip",
      "Concrete023_2K-JPG.zip", "hangar-01.zip" }

InitialCaches ==
    UNION { [S -> {"good", "bad"}] :
            S \in { T \in SUBSET CacheUniverse : Cardinality(T) <= MaxCached } }

\* the command line without options
NoFlags == [no_textures |-> FALSE, local_only |-> FALSE, ww2_assets |-> FALSE,
            ww2_textures |-> FALSE, polyhaven |-> FALSE, list_assets |-> FALSE,
            all |-> FALSE]

\* the command lines the process is started on
Flags ==
    { NoFlags,
      [NoFlags EXCEPT !.list_assets = TRUE],
      [NoFlags EXCEPT !.list_assets = TRUE, !.all = TRUE],
      [NoFlags EXCEPT !.list_assets = TRUE, !.no_textures = TRUE, !.local_only = TRUE],
      [NoFlags EXCEPT !.local_only = TRUE],
      [NoFlags EXCEPT !.no_textures = TRUE],
      [NoFlags EXCEPT !.no_textures = TRUE, !.local_only = TRUE],
      [NoFlags EXCEPT !.no_textures = TRUE, !.ww2_assets = TRUE],
      [NoFlags EXCEPT !.no_textures = TRUE, !.all = TRUE],
      [NoFlags EXCEPT !.ww2_textures = TRUE],
      [NoFlags EXCEPT !.polyhaven = TRUE] }

EmptyVariants ==
    [euro_buildings |-> <<>>, industrial_buildings |-> <<>>, beach_shacks |-> <<>>,
     trees_conifer |-> <<>>, trees_broadleaf |-> <<>>, trees_palm |-> <<>>]

FallbackWarning == "No assets were successfully downloaded. Using fallback values."
OkWarning == "Assets downloaded successfully."

NoManifest ==
    [exists |-> FALSE, version |-> 0, use_external_assets |-> FALSE,
     variants |-> EmptyVariants, textures |-> NoFiles,
     packs_dir |-> "", textures_dir |-> "",
     status |-> [assets_downloaded |-> FALSE, asset_count |-> 0, warning |-> ""]]

\* the manifest of an earlier run that had fetched a pack
OldManifest ==
    [exists |-> TRUE, version |-> 2, use_external_assets |-> TRUE,
     variants |-> [EmptyVariants EXCEPT !.euro_buildings =
                      <<"res://assets/external/packs/kenney_building-kit/old_house.glb">>],
     textures |-> NoFiles,
     packs_dir |-> "res://assets/external/packs",
     textures_dir |-> "res://assets/external/textures/ambientcg",
     status |-> [assets_downloaded |-> TRUE, asset_count |-> 1, warning |-> OkWarning]]

\* no helper function is applied on its own: main() is what runs
NoCall == [fn |-> "main"]

\* the call has not returned
NoResult == [done |-> FALSE]

NoFetch == [bundle |-> "", cached |-> "", requests |-> {}, downloaded |-> FALSE,
            raised |-> FALSE]

\* ---------------------------------------------------------------- Init

\* The process has been started on some command line, in a project tree that is
\* either fresh or carries what an earlier run left: an extracted pack, an
\* extracted texture and a manifest.
Init ==
    /\ args \in Flags
    /\ has_root \in BOOLEAN
    /\ pc = "start"
    /\ idx = 0
    /\ ingest \in InitialCaches
    /\ \E earlier \in BOOLEAN :
          /\ ingest_exists = (earlier \/ DOMAIN ingest # {})
          /\ packs_exists = earlier
          /\ packs = (IF earlier THEN Put(NoFiles, "kenney_building-kit", OldPack) ELSE NoFiles)
          /\ textures_exists = earlier
          /\ textures = (IF earlier THEN Put(NoFiles, "Concrete023_2K-JPG", OldTexture) ELSE NoFiles)
          /\ manifest = (IF earlier THEN OldManifest ELSE NoManifest)
    /\ pack_dirs = <<>>
    /\ extracted_dirs = <<>>
    /\ exit_code = -1
    /\ writes = 0
    /\ last = NoFetch
    /\ walked = <<>>
    /\ call = NoCall
    /\ result = NoResult

\* ------------------------------------------------------- main's control

\* the catalog each fetch loop of main() iterates over
Catalog(section) ==
    CASE section = "kenney" -> KENNEY_PACKS
      [] section = "ww2" -> KENNEY_WW2_PACKS
      [] section = "polyhaven" -> POLYHAVEN_ASSETS
      [] section = "tex" -> AMBIENTCG_TEXTURES
      [] section = "texww2" -> AMBIENTCG_WW2_TEXTURES
      [] section = "texph" -> POLYHAVEN_TEXTURES

\* the condition under which main() runs the loop
Runs(section, a) ==
    CASE section = "kenney" -> TRUE
      [] section = "ww2" -> a.ww2_assets
      [] section = "polyhaven" -> a.polyhaven
      [] section = "tex" -> ~a.no_textures
      [] section = "texww2" -> ~a.no_textures /\ a.ww2_textures
      [] section = "texph" -> ~a.no_textures /\ a.polyhaven

Sections == <<"kenney", "ww2", "polyhaven", "tex", "texww2", "texph">>

SectionNo(section) == CHOOSE k \in DOMAIN Sections : Sections[k] = section

\* the first loop at or after Sections[k] that runs and has an entry, else the
\* classification and manifest step
RECURSIVE Enter(_, _)
Enter(k, a) ==
    IF k > Len(Sections) THEN <<"manifest", 0>>
    ELSE IF Runs(Sections[k], a) /\ Len(Catalog(Sections[k])) > 0
         THEN <<Sections[k], 1>>
         ELSE Enter(k + 1, a)

\* main's position after entry i of a loop has been handled
Continue(section, i, a) ==
    IF i < Len(Catalog(section)) THEN <<section, i + 1>>
    ELSE Enter(SectionNo(section) + 1, a)

\* main's position when the loop is left early
Leave(section, a) == Enter(SectionNo(section) + 1, a)

\* main's model loops with the try/except around the whole loop instead of
\* around each fetch
AfterPackAborting(section, i, a, raised) ==
    IF raised THEN Enter(SectionNo(section) + 1, a) ELSE Continue(section, i, a)

\* main, lines 752-774: each pack is fetched inside its own try/except, so the
\* loop goes on to the next pack whether the fetch returned or raised
AfterPack(section, i, a, raised) == Continue(section, i, a)

\* main's texture calls without their try/except: the exception ends the process
AfterTextureUncaught(section, i, a, raised) ==
    IF raised THEN <<"done", 0>> ELSE Continue(section, i, a)

\* main, lines 779-796: a list of textures is fetched by one call inside one
\* try/except, so an exception that leaves fetch_ambientcg_textures ends the list
AfterTexture(section, i, a, raised) ==
    IF raised THEN Leave(section, a) ELSE Continue(section, i, a)

\* main, lines 743-748: --all switches the three optional sets on
ApplyAll(a) ==
    IF a.all
    THEN [a EXCEPT !.ww2_assets = TRUE, !.ww2_textures = TRUE, !.polyhaven = TRUE]
    ELSE a

\* find_project_root falling back to the start directory when no marker is found
find_project_root_fallback(marker_found) == TRUE

\* find_project_root(start), lines 202-215: whether it returns a root; it raises
\* FileNotFoundError when project.godot is in none of the directories it visits
find_project_root(marker_found) == marker_found

\* the listing going through ensure_ingest_dir_exists, which creates the directory
list_available_local_assets_ensuring(exists) == TRUE

\* list_available_local_assets(project_root), lines 262-267: whether assets/ingest
\* exists afterwards; get_ingest_dir only names the directory
list_available_local_assets(exists) == exists

\* main, lines 714-748: resolve the project root, handle --list-assets and --all
Start ==
    /\ pc = "start"
    /\ IF ~find_project_root(has_root)
       THEN \* FileNotFoundError, which nothing catches
            /\ pc' = "done" /\ idx' = 0 /\ exit_code' = 1 /\ args' = args
            /\ ingest_exists' = ingest_exists
       ELSE IF args.list_assets
       THEN \* the names of the cache's archives are printed
            /\ pc' = "done" /\ idx' = 0 /\ exit_code' = 0 /\ args' = args
            /\ ingest_exists' = list_available_local_assets(ingest_exists)
       ELSE /\ args' = ApplyAll(args)
            /\ pc' = Enter(1, args')[1]
            /\ idx' = Enter(1, args')[2]
            /\ exit_code' = exit_code
            /\ ingest_exists' = ingest_exists
    /\ UNCHANGED <<has_root, ingest, packs_exists, packs, textures_exists, textures,
                   manifest, pack_dirs, extracted_dirs, writes, last, walked,
                   call, result>>

\* ------------------------------------------------------- archive, network

\* the text whose characters are cs
Str(cs) == CHOOSE s \in KnownStrings : Chars(s) = cs

\* the removal left out: the directory keeps what it held
rmtree_skipped(dirs, d) == dirs

\* shutil.rmtree(d) when d exists
rmtree(dirs, d) == [x \in (DOMAIN dirs) \ {d} |-> dirs[x]]

\* extract_zip(zip_path, dst_dir): mkdir(exist_ok=True), then extractall, which
\* adds the members of a readable archive to whatever dst_dir holds
extract_zip(dirs, zip_name, content, d) ==
    Put(dirs, d, (IF d \in DOMAIN dirs THEN dirs[d] ELSE Empty)
                 \cup (IF content = "good" THEN {zip_name} ELSE Empty))

\* zipfile.ZipFile raises BadZipFile on a file that is no archive
ExtractRaises(content) == content # "good"

\* What _download(url, dst) can do: fail before dst is opened ("refused"), fail
\* after it was opened and partly written ("cut"), or complete with the bytes of
\* an archive ("good") or of something else ("bad").
DownloadOutcomes == {"refused", "cut", "good", "bad"}

DownloadRaises(d) == d \in {"refused", "cut"}

\* _download's effect on the directory that receives dst
Downloaded(dir, name, d) ==
    IF d = "refused" THEN dir
    ELSE Put(dir, name, IF d = "good" THEN "good" ELSE "bad")

\* The HTML of a page, as the sequence of its quote- or space-delimited tokens.
KenneyPages ==
    { <<>>,
      << "https://kenney.nl/media/pages/assets/kenney_a.zip" >>,
      << "https://kenney\\.nl/a\\.zip" >>,
      << "https://kenney\\.nl/media/pages/assets/kenney_a\\.zip", "https://kenney\\.nl/a\\.zip" >> }

\* re.findall(r"https://kenney\\.nl/[^\"'<>\s]+\\.zip", token): in the raw string
\* "\\." is a literal backslash followed by any character.  The match starts at the
\* leftmost place that can complete and, [^..]+ being greedy, ends at the last.
KenneyZipSpans(cs) ==
    { se \in (1..Len(cs)) \X (1..Len(cs)) :
        LET s == se[1]
            e == se[2]
        IN /\ s + 19 <= e - 5
           /\ SubSeq(cs, s, s + 13) = Chars("https://kenney")
           /\ cs[s + 14] = "\\"
           /\ SubSeq(cs, s + 16, s + 18) = Chars("nl/")
           /\ cs[e - 4] = "\\"
           /\ SubSeq(cs, e - 2, e) = Chars("zip") }

KenneyZipFind(token) ==
    LET cs == Chars(token)
        spans == KenneyZipSpans(cs)
    IN IF spans = {} THEN <<>>
       ELSE LET s == CHOOSE s \in {se[1] : se \in spans} :
                         \A t \in {se[1] : se \in spans} : s <= t
                e == CHOOSE e \in {se[2] : se \in {x \in spans : x[1] = s}} :
                         \A t \in {se[2] : se \in {x \in spans : x[1] = s}} : t <= e
            IN << Str(SubSeq(cs, s, e)) >>

RECURSIVE FindAllKenneyZips(_)
FindAllKenneyZips(html) ==
    IF html = <<>> THEN <<>>
    ELSE KenneyZipFind(Head(html)) \o FindAllKenneyZips(Tail(html))

\* the "/media/pages/assets/" in cand and "kenney_" in cand test
PreferredKenneyLink(cand) ==
    /\ contains(Chars("/media/pages/assets/"), Chars(cand))
    /\ contains(Chars("kenney_"), Chars(cand))

\* _pick_best_kenney_zip_link(html); "" stands for None
pick_best_kenney_zip_link(html) ==
    LET zips == FindAllKenneyZips(html)
        good == {i \in DOMAIN zips : PreferredKenneyLink(zips[i])}
    IN IF zips = <<>> THEN ""
       ELSE IF good # {}
            THEN zips[CHOOSE i \in good : \A j \in good : j <= i]
            ELSE zips[Len(zips)]

\* the pages on which fetch_kenney_pack finds a link, and those on which it finds none
KenneyPagesWithLink == {html \in KenneyPages : pick_best_kenney_zip_link(html) # ""}
KenneyPagesWithoutLink == {html \in KenneyPages : pick_best_kenney_zip_link(html) = ""}

\* what each lookup finds among the files a cache may hold
ZipFiles == {f \in KnownStrings : IsZip(f)}
KenneyHits == Table([slug \in KnownStrings |-> {f \in ZipFiles : KenneyMatch(slug, f)}])

\* ------------------------------------------------------ fetch_kenney_pack

\* lines 322-333: rmtree the pack's directory, unpack local_zip into it, return it
KenneyExtract(pack, local_zip, ing, fetch) ==
    LET raised == ExtractRaises(ing[local_zip]) IN
    /\ ingest' = ing
    /\ packs_exists' = TRUE
    /\ packs' = extract_zip(rmtree(packs, pack.slug), local_zip, ing[local_zip], pack.slug)
    /\ pack_dirs' = (IF raised THEN pack_dirs ELSE Append(pack_dirs, pack.slug))
    /\ last' = [fetch EXCEPT !.raised = raised]

\* a name no catalog entry's lookup matches
KenneyZipNameUnrelated(slug) == "download.zip"

\* line 314: the file the download is written to, f"{pack.slug}.zip"
KenneyZipName(slug) == slug \o ".zip"

\* fetch_kenney_pack(pack, packs_dir, project_root), with main's append of the
\* directory it returns
fetch_kenney_pack(pack) ==
    LET hits == KenneyHits[pack.slug] \cap DOMAIN ingest
        zip_name == KenneyZipName(pack.slug)
        fetch == [NoFetch EXCEPT !.bundle = pack.slug]
    IN
    /\ ingest_exists' = TRUE
    /\ \/ \* found in ingest: glob's order decides which of several matches
          \E f \in hits : KenneyExtract(pack, f, ingest, [fetch EXCEPT !.cached = f])
       \/ \* _http_get raises
          /\ hits = {}
          /\ last' = [fetch EXCEPT !.requests = {"page"}, !.raised = TRUE]
          /\ UNCHANGED <<ingest, packs_exists, packs, pack_dirs>>
       \/ \* the page has no link: RuntimeError
          /\ hits = {}
          /\ KenneyPagesWithoutLink # {}
          /\ last' = [fetch EXCEPT !.requests = {"page"}, !.raised = TRUE]
          /\ UNCHANGED <<ingest, packs_exists, packs, pack_dirs>>
       \/ \* a link is found and _download raises
          /\ hits = {}
          /\ KenneyPagesWithLink # {}
          /\ \E d \in DownloadOutcomes :
                /\ DownloadRaises(d)
                /\ ingest' = Downloaded(ingest, zip_name, d)
          /\ last' = [fetch EXCEPT !.requests = {"page", "download"}, !.raised = TRUE]
          /\ UNCHANGED <<packs_exists, packs, pack_dirs>>
       \/ \* a link is found and the download completes
          /\ hits = {}
          /\ KenneyPagesWithLink # {}
          /\ \E d \in DownloadOutcomes :
                /\ ~DownloadRaises(d)
                /\ KenneyExtract(pack, zip_name, Downloaded(ingest, zip_name, d),
                                 [fetch EXCEPT !.requests = {"page", "download"},
                                               !.downloaded = TRUE])

\* main, lines 750-756
KenneyLoop ==
    /\ pc = "kenney"
    /\ fetch_kenney_pack(KENNEY_PACKS[idx])
    /\ pc' = AfterPack("kenney", idx, args, last'.raised)[1]
    /\ idx' = AfterPack("kenney", idx, args, last'.raised)[2]
    /\ UNCHANGED <<args, has_root, textures_exists, textures, manifest,
                   extracted_dirs, exit_code, writes, walked,
                   call, result>>

\* main, lines 758-764
KenneyWW2Loop ==
    /\ pc = "ww2"
    /\ fetch_kenney_pack(KENNEY_WW2_PACKS[idx])
    /\ pc' = AfterPack("ww2", idx, args, last'.raised)[1]
    /\ idx' = AfterPack("ww2", idx, args, last'.raised)[2]
    /\ UNCHANGED <<args, has_root, textures_exists, textures, manifest,
                   extracted_dirs, exit_code, writes, walked,
                   call, result>>

\* -------------------------------------------------- fetch_polyhaven_asset

\* cs holds lit from position i on
At(cs, i, lit) ==
    /\ 1 <= i
    /\ i + Len(lit) - 1 <= Len(cs)
    /\ SubSeq(cs, i, i + Len(lit) - 1) = lit

\* The download patterns are literals joined by [^\"'< >\s]+ and may end in
\* [^\"'< >\s]* or [^\"'< >\s]+; a token holds none of the excluded characters.
\* LitEnds: where the last literal can end when the first one starts at i.
RECURSIVE LitEnds(_, _, _)
LitEnds(cs, i, lits) ==
    IF ~At(cs, i, Head(lits)) THEN {}
    ELSE IF Len(lits) = 1 THEN {i + Len(Head(lits)) - 1}
    ELSE UNION { LitEnds(cs, k, Tail(lits)) : k \in (i + Len(Head(lits)) + 1)..Len(cs) }

\* the ends of a pattern's matches, from the ends of its last literal: the
\* trailing class runs to the end n of the token
WithRest(ends, n, rest) ==
    CASE rest = "" -> ends
      [] rest = "*" -> IF ends = {} THEN {} ELSE {n}
      [] rest = "+" -> IF \E e \in ends : e < n THEN {n} ELSE {}

\* the ends of the matches of a pattern that start at i
PatternEnds(cs, i, lits, rest) == WithRest(LitEnds(cs, i, lits), Len(cs), rest)

Least(S) == CHOOSE x \in S : \A y \in S : x <= y
Greatest(S) == CHOOSE x \in S : \A y \in S : y <= x

\* the match that starts at s, taken as long as it can be
MatchFrom(cs, s, lits, rest) ==
    << Str(SubSeq(cs, s, Greatest(PatternEnds(cs, s, lits, rest)))) >>

\* the leftmost match, if there is one
Leftmost(cs, starts, lits, rest) ==
    IF starts = {} THEN <<>> ELSE MatchFrom(cs, Least(starts), lits, rest)

\* a pattern's literals, character by character
Literals(pat) == [i \in DOMAIN pat.lits |-> Chars(pat.lits[i])]

MatchStarts(cs, lits, rest) == {s \in 1..Len(cs) : PatternEnds(cs, s, lits, rest) # {}}

Search(cs, lits, rest) == Leftmost(cs, MatchStarts(cs, lits, rest), lits, rest)

\* re.findall(pattern, token): the leftmost match, taken as long as it can be
PatternFind(token, pat) == Search(Chars(token), Literals(pat), pat.rest)

RECURSIVE FindAll(_, _)
FindAll(html, pat) ==
    IF html = <<>> THEN <<>>
    ELSE PatternFind(Head(html), pat) \o FindAll(Tail(html), pat)

\* _parse_polyhaven_download_url's patterns, in its order
PolyhavenPatterns == <<
    [lits |-> <<"https://cdn.polyhaven.com/asset_downloads/", ".zip">>, rest |-> ""],
    [lits |-> <<"https://polyhaven.com/a/", "/download">>, rest |-> "*"],
    [lits |-> <<"https://polyhaven.com/download_asset">>, rest |-> "*"],
    [lits |-> <<"https://", "polyhaven", ".zip">>, rest |-> ""],
    [lits |-> <<"https://", "/download?file=", ".zip">>, rest |-> ""],
    [lits |-> <<"https://", "/get?file=", ".zip">>, rest |-> ""],
    [lits |-> <<"https://api.polyhaven.com/", ".zip">>, rest |-> ""],
    [lits |-> <<"https://", "/assets/", "/download">>, rest |-> "*"] >>

\* the last-resort pattern, https://[^..]+polyhaven[^..]+
PolyhavenAnyLink == [lits |-> <<"https://", "polyhaven">>, rest |-> "+"]

\* lines 420-422
DownloadLike(cs) ==
    \/ endswith(cs, Chars(".zip"))
    \/ contains(Chars("download"), lower(cs))
    \/ contains(Chars("polyhaven.com/a/"), cs)
LooksLikeDownload(match) == DownloadLike(Chars(match))

\* lines 428-430
AssetLike(cs) ==
    \/ contains(Chars("download"), cs)
    \/ contains(Chars("asset"), cs)
    \/ contains(Chars("cdn"), cs)
LooksLikeAsset(link) == AssetLike(lower(Chars(link)))

\* the first element of seq whose position is in ok, else ""
FirstThat(seq, ok) == IF ok = {} THEN "" ELSE seq[Least(ok)]

\* lines 419-423: the first match that passes the test
FirstDownload(matches) ==
    FirstThat(matches, {i \in DOMAIN matches : LooksLikeDownload(matches[i])})

\* lines 427-431: the first link that passes the test
FirstAsset(all_links) ==
    FirstThat(all_links, {i \in DOMAIN all_links : LooksLikeAsset(all_links[i])})

\* found, unless it is "" (nothing returned yet)
OrElse(found, otherwise) == IF found # "" THEN found ELSE otherwise

\* the loop over the patterns from the k-th on; "" stands for no return
RECURSIVE TryPatterns(_, _)
TryPatterns(html, k) ==
    IF k > Len(PolyhavenPatterns) THEN ""
    ELSE OrElse(FirstDownload(FindAll(html, PolyhavenPatterns[k])), TryPatterns(html, k + 1))

\* the listed patterns alone, without the last-resort search of lines 425-431
parse_listed_patterns_only(html) == TryPatterns(html, 1)

\* _parse_polyhaven_download_url(html); "" stands for None
parse_polyhaven_download_url(html) ==
    OrElse(TryPatterns(html, 1), FirstAsset(FindAll(html, PolyhavenAnyLink)))

PolyhavenPages ==
    { <<>>,
      << "https://cdn.polyhaven.com/asset_downloads/hangar_01.zip" >>,
      << "https://dl.polyhaven.org/file/ph-assets/Models/hangar_01.blend" >>,
      << "https://www.polyhaven.com/about" >> }

PolyhavenPagesWithLink ==
    {html \in PolyhavenPages : parse_polyhaven_download_url(html) # ""}
PolyhavenPagesWithoutLink ==
    {html \in PolyhavenPages : parse_polyhaven_download_url(html) = ""}

PolyhavenHits == Table([name \in KnownStrings |-> {f \in ZipFiles : PolyhavenMatch(name, f)}])

\* str.replace(old, ''): every occurrence of old removed, left to right
RECURSIVE remove_all(_, _)
remove_all(cs, old) ==
    IF cs = <<>> THEN <<>>
    ELSE IF At(cs, 1, old) THEN remove_all(SubSeq(cs, Len(old) + 1, Len(cs)), old)
    ELSE <<Head(cs)>> \o remove_all(Tail(cs), old)

\* file_name.replace(".zip", "")
Range(seq) == {seq[i] : i \in DOMAIN seq}
ArchiveNames ==
    {x.file_name : x \in Range(POLYHAVEN_ASSETS) \cup Range(AMBIENTCG_TEXTURES)
                        \cup Range(AMBIENTCG_WW2_TEXTURES) \cup Range(POLYHAVEN_TEXTURES)}
WithoutZip == Table([name \in ArchiveNames |-> Str(remove_all(Chars(name), Chars(".zip")))])

\* lines 485-509: copy local_zip into the packs directory, rmtree the asset's
\* directory and unpack the copy into it; an archive that cannot be unpacked makes
\* the function return None
PolyhavenExtract(asset, local_zip, ing, fetch) ==
    LET out_zip == "polyhaven_" \o asset.file_name
        out_dir == "polyhaven_" \o WithoutZip[asset.file_name]
        copied == Put(packs, out_zip, Zip)
    IN
    /\ ingest' = ing
    /\ packs_exists' = TRUE
    /\ packs' = extract_zip(rmtree(copied, out_dir), local_zip, ing[local_zip], out_dir)
    /\ pack_dirs' = (IF ExtractRaises(ing[local_zip]) THEN pack_dirs
                     ELSE Append(pack_dirs, out_dir))
    /\ last' = fetch

\* fetch_polyhaven_asset(asset, packs_dir, project_root), with main's append of
\* the directory it returns; shutil.copy2 is taken to succeed
fetch_polyhaven_asset(asset) ==
    LET hits == IF ingest_exists THEN PolyhavenHits[asset.file_name] \cap DOMAIN ingest
                ELSE {}
        fetch == [NoFetch EXCEPT !.bundle = asset.file_name]
        online == [fetch EXCEPT !.requests = {"page", "download"}]
    IN
    \/ \* found in ingest
       /\ \E f \in hits : PolyhavenExtract(asset, f, ingest, [fetch EXCEPT !.cached = f])
       /\ UNCHANGED ingest_exists
    \/ \* _http_get raises: return None
       /\ hits = {}
       /\ last' = [fetch EXCEPT !.requests = {"page"}]
       /\ UNCHANGED <<ingest_exists, ingest, packs_exists, packs, pack_dirs>>
    \/ \* no download URL on the page: return None
       /\ hits = {}
       /\ PolyhavenPagesWithoutLink # {}
       /\ last' = [fetch EXCEPT !.requests = {"page"}]
       /\ UNCHANGED <<ingest_exists, ingest, packs_exists, packs, pack_dirs>>
    \/ \* download_to_ingest raises: return None
       /\ hits = {}
       /\ PolyhavenPagesWithLink # {}
       /\ ingest_exists' = TRUE
       /\ \E d \in DownloadOutcomes :
             /\ DownloadRaises(d)
             /\ ingest' = Downloaded(ingest, asset.file_name, d)
       /\ last' = online
       /\ UNCHANGED <<packs_exists, packs, pack_dirs>>
    \/ \* the download completes
       /\ hits = {}
       /\ PolyhavenPagesWithLink # {}
       /\ ingest_exists' = TRUE
       /\ \E d \in DownloadOutcomes :
             /\ ~DownloadRaises(d)
             /\ PolyhavenExtract(asset, asset.file_name,
                                 Downloaded(ingest, asset.file_name, d),
                                 [online EXCEPT !.downloaded = TRUE])

\* main, lines 766-774
PolyhavenLoop ==
    /\ pc = "polyhaven"
    /\ fetch_polyhaven_asset(POLYHAVEN_ASSETS[idx])
    /\ pc' = AfterPack("polyhaven", idx, args, last'.raised)[1]
    /\ idx' = AfterPack("polyhaven", idx, args, last'.raised)[2]
    /\ UNCHANGED <<args, has_root, textures_exists, textures, manifest,
                   extracted_dirs, exit_code, writes, walked,
                   call, result>>

\* ----------------------------------------------- fetch_ambientcg_textures

AmbientHits == Table([name \in KnownStrings |-> {f \in ZipFiles : AmbientMatch(name, f)}])

\* lines 368-390: copy local_zip to textures/_zips, rmtree the texture's directory
\* and unpack the copy into it.  Nothing inside the function catches what
\* extract_zip raises.  shutil.copy2 is taken to succeed.
TextureExtract(tex, local_zip, ing, dirs_so_far, fetch) ==
    LET out_dir == WithoutZip[tex.file_name]
        zips == IF "_zips" \in DOMAIN textures THEN textures["_zips"] ELSE Empty
        bad == ExtractRaises(ing[local_zip])
    IN
    /\ ingest' = ing
    /\ textures_exists' = TRUE
    /\ textures' = extract_zip(
           rmtree(Put(textures, "_zips", zips \cup {tex.file_name}), out_dir),
           local_zip, ing[local_zip], out_dir)
    /\ extracted_dirs' = (IF bad THEN dirs_so_far ELSE Append(dirs_so_far, out_dir))
    /\ last' = [fetch EXCEPT !.raised = bad]

\* one iteration of fetch_ambientcg_textures' loop (lines 343-390); the first one
\* follows the function's entry (lines 337-341)
fetch_ambientcg_texture(tex, first) ==
    LET hits == AmbientHits[tex.file_name] \cap DOMAIN ingest
        fetch == [NoFetch EXCEPT !.bundle = tex.file_name]
        online == [fetch EXCEPT !.requests = {"download"}]
        dirs_so_far == IF first THEN <<>> ELSE extracted_dirs
    IN
    /\ ingest_exists' = TRUE
    /\ \/ \* found in ingest
          \E f \in hits :
             TextureExtract(tex, f, ingest, dirs_so_far, [fetch EXCEPT !.cached = f])
       \/ \* _download raises: skip this texture
          /\ hits = {}
          /\ \E d \in DownloadOutcomes :
                /\ DownloadRaises(d)
                /\ ingest' = Downloaded(ingest, tex.file_name, d)
          /\ extracted_dirs' = dirs_so_far
          /\ last' = online
          /\ UNCHANGED <<textures_exists, textures>>
       \/ \* the download completes
          /\ hits = {}
          /\ \E d \in DownloadOutcomes :
                /\ ~DownloadRaises(d)
                /\ TextureExtract(tex, tex.file_name,
                                  Downloaded(ingest, tex.file_name, d), dirs_so_far,
                                  [online EXCEPT !.downloaded = TRUE])

\* main, lines 779-782
TextureLoop ==
    /\ pc = "tex"
    /\ fetch_ambientcg_texture(AMBIENTCG_TEXTURES[idx], idx = 1)
    /\ pc' = AfterTexture("tex", idx, args, last'.raised)[1]
    /\ idx' = AfterTexture("tex", idx, args, last'.raised)[2]
    /\ UNCHANGED <<args, has_root, packs_exists, packs, manifest, pack_dirs,
                   exit_code, writes, walked,
                   call, result>>

\* main, lines 785-789
TextureWW2Loop ==
    /\ pc = "texww2"
    /\ fetch_ambientcg_texture(AMBIENTCG_WW2_TEXTURES[idx], idx = 1)
    /\ pc' = AfterTexture("texww2", idx, args, last'.raised)[1]
    /\ idx' = AfterTexture("texww2", idx, args, last'.raised)[2]
    /\ UNCHANGED <<args, has_root, packs_exists, packs, manifest, pack_dirs,
                   exit_code, writes, walked,
                   call, result>>

\* main, lines 792-796
TexturePolyhavenLoop ==
    /\ pc = "texph"
    /\ fetch_ambientcg_texture(POLYHAVEN_TEXTURES[idx], idx = 1)
    /\ pc' = AfterTexture("texph", idx, args, last'.raised)[1]
    /\ idx' = AfterTexture("texph", idx, args, last'.raised)[2]
    /\ UNCHANGED <<args, has_root, packs_exists, packs, manifest, pack_dirs,
                   exit_code, writes, walked,
                   call, result>>

\* ------------------------------------------------------ build_variant_pools

\* the project root find_project_root returns, as the parts of its path
ProjectRoot == <<"proj">>

PacksDirParts == <<"assets", "external", "packs">>
TexturesDirParts == <<"assets", "external", "textures", "ambientcg">>

\* "/".join(parts), as characters
RECURSIVE JoinChars(_)
JoinChars(parts) ==
    IF parts = <<>> THEN <<>>
    ELSE IF Len(parts) = 1 THEN Chars(parts[1])
    ELSE Chars(Head(parts)) \o <<"/">> \o JoinChars(Tail(parts))

\* "/".join(parts), as text
RECURSIVE JoinText(_)
JoinText(parts) ==
    IF parts = <<>> THEN ""
    ELSE IF Len(parts) = 1 THEN parts[1]
    ELSE Head(parts) \o "/" \o JoinText(Tail(parts))

\* A file under the packs directory: [root, dir, member], the parts of the project
\* root, the pack's directory name and the parts of the path inside it.
AbsParts(p) == p.root \o PacksDirParts \o <<p.dir>> \o p.member

\* str(p) of an absolute POSIX path
PathText(p) == <<"/">> \o JoinChars(AbsParts(p))

\* p.name
FileName(p) == p.member[Len(p.member)]

\* Path.suffix: from the last dot of the name on, unless that dot starts or ends it
suffix(cs) ==
    LET dots == {i \in DOMAIN cs : cs[i] = "."} IN
    IF dots = {} THEN <<>>
    ELSE LET i == CHOOSE i \in dots : \A j \in dots : j <= i IN
         IF i = 1 \/ i = Len(cs) THEN <<>> ELSE SubSeq(cs, i, Len(cs))

ModelExtensions == {Chars(".glb"), Chars(".gltf"), Chars(".fbx"), Chars(".obj")}

\* the prefix put before the path as it is, without relative_to()
rel_res_path_absolute(root, parts) == "res://" \o "/" \o JoinText(parts)

\* _rel_res_path(project_root, abs_path) for a path under project_root:
\* relative_to() drops the root's parts
rel_res_path(root, parts) ==
    "res://" \o JoinText(SubSeq(parts, Len(root) + 1, Len(parts)))

\* the body of _select_by_patterns' loop without its exclude test
selected_unfiltered(p, include, exclude) ==
    \/ include = <<>>
    \/ \E i \in DOMAIN include :
          fnmatch(lower(Chars(FileName(p))), lower(Chars(include[i])))

\* the body of _select_by_patterns' loop: whether the path is kept
selected(p, include, exclude) ==
    LET name == lower(Chars(FileName(p)))
        ok == IF include # <<>>
              THEN \E i \in DOMAIN include : fnmatch(name, lower(Chars(include[i])))
              ELSE TRUE
    IN /\ ok
       /\ ~\E i \in DOMAIN exclude : fnmatch(name, lower(Chars(exclude[i])))

EuroInclude == <<"*house*", "*building*", "*home*", "*residence*", "*hut*">>
EuroExclude == <<"*door*", "*window*", "*fence*", "*road*", "*lamp*", "*sign*", "*car*">>
IndustrialInclude == <<"*factory*", "*warehouse*", "*hangar*", "*building*", "*shed*", "*container*">>
IndustrialExclude == <<"*road*", "*lamp*", "*sign*", "*car*">>
ShackInclude == <<"*hut*", "*cabin*", "*shack*", "*house*", "*small*">>
ShackExclude == <<"*door*", "*window*", "*fence*">>
TreeInclude == <<"*tree*", "*pine*", "*palm*">>
TreeExclude == <<"*log*", "*stump*", "*leaf*">>
ConiferKeywords == <<"pine", "fir", "spruce", "conifer">>

\* every directory a fetch can put into pack_dirs, every file an archive can hold
PackDirNames ==
    {x.slug : x \in Range(KENNEY_PACKS) \cup Range(KENNEY_WW2_PACKS)}
    \cup {"polyhaven_" \o WithoutZip[x.file_name] : x \in Range(POLYHAVEN_ASSETS)}
Sources == ZipFiles \cup OldPack \cup OldTexture
AllMembers == UNION { Members(source) : source \in Sources }

\* the directory the packs of ScenarioPacks are unpacked into
ScenarioDir == "kenney_building-kit"
ScenarioMembers == UNION { Members(source) : source \in ScenarioPacks }

AllPaths ==
    [root : {ProjectRoot}, dir : PackDirNames, member : AllMembers]
    \cup [root : {ProjectRoot}, dir : {ScenarioDir}, member : ScenarioMembers]

\* What the classification reads off one path, computed once per path.
IsModelFile == Table([p \in AllPaths |-> lower(suffix(Chars(FileName(p)))) \in ModelExtensions])
InSuburban == Table([p \in AllPaths |-> contains(Chars("suburban"), lower(PathText(p)))])
InIndustrial == Table([p \in AllPaths |-> contains(Chars("industrial"), lower(PathText(p)))])
InBuildingKit ==
    Table([p \in AllPaths |-> /\ contains(Chars("building"), lower(PathText(p)))
                        /\ contains(Chars("kit"), lower(PathText(p)))])
InNature == Table([p \in AllPaths |-> contains(Chars("nature"), lower(PathText(p)))])
EuroSelected == Table([p \in AllPaths |-> selected(p, EuroInclude, EuroExclude)])
IndustrialSelected == Table([p \in AllPaths |-> selected(p, IndustrialInclude, IndustrialExclude)])
ShackSelected == Table([p \in AllPaths |-> selected(p, ShackInclude, ShackExclude)])
TreeSelected == Table([p \in AllPaths |-> selected(p, TreeInclude, TreeExclude)])
IsConifer ==
    Table([p \in AllPaths |-> \E i \in DOMAIN ConiferKeywords :
                           contains(Chars(ConiferKeywords[i]), lower(Chars(FileName(p))))])
IsPalm == Table([p \in AllPaths |-> contains(Chars("palm"), lower(Chars(FileName(p))))])

\* _rel_res_path(project_root, p)
ResPath == Table([p \in AllPaths |-> rel_res_path(p.root, AbsParts(p))])

\* _walk_files(d, exts): the model files under d, in the order rglob yields them,
\* which is any order
WalkOrders(d) ==
    LET files == {p \in [root : {ProjectRoot}, dir : {d}, member : DirFiles(packs, d)] :
                    IsModelFile[p]}
    IN {w \in [1..Cardinality(files) -> files] :
          \A i, j \in DOMAIN w : i # j => w[i] # w[j]}

\* lines 540-542: the walks of the pack directories, concatenated
RECURSIVE ModelFileLists(_)
ModelFileLists(dirs) ==
    IF dirs = <<>> THEN {<<>>}
    ELSE {w \o rest : w \in WalkOrders(Head(dirs)), rest \in ModelFileLists(Tail(dirs))}

\* the large pack's files in one order of enumeration, kind by kind
LargeOrder ==
    [i \in 1..(Len(LargeNames) * NFiles) |->
        [root |-> ProjectRoot, dir |-> ScenarioDir,
         member |-> <<"nature", Numbers[((i - 1) % NFiles) + 1],
                      LargeNames[((i - 1) \div NFiles) + 1]>>]]

Rotated(xs, k) == [i \in DOMAIN xs |-> xs[((i + k - 1) % Len(xs)) + 1]]
Reversed(xs) == [i \in DOMAIN xs |-> xs[Len(xs) + 1 - i]]

\* model_files as lines 540-542 can leave it.  Of the orders in which the large
\* pack can be enumerated the model takes the rotations of one order and their
\* reverses.
Scans(dirs) ==
    IF \E i \in DOMAIN dirs : LargePack \in packs[dirs[i]]
    THEN {Rotated(LargeOrder, k) : k \in 0..(Len(LargeOrder) - 1)}
         \cup {Reversed(Rotated(LargeOrder, k)) : k \in 0..(Len(LargeOrder) - 1)}
    ELSE ModelFileLists(dirs)

\* xs[-n:]
TruncateTail(xs, n) == SubSeq(xs, IF Len(xs) < n THEN 1 ELSE Len(xs) - n + 1, Len(xs))

\* xs[:n]
Truncate(xs, n) == SubSeq(xs, 1, IF Len(xs) < n THEN Len(xs) ELSE n)

\* the fallback taken whenever no conifer was found, palms or not
broadleaf_fallback_eager(conifer_candidates, palm_candidates, tree_candidates, others) ==
    IF conifer_candidates = <<>> /\ tree_candidates # <<>>
    THEN tree_candidates
    ELSE others

\* lines 576-578: with no conifer and no palm among the trees, every tree is a
\* broadleaf
broadleaf_fallback(conifer_candidates, palm_candidates, tree_candidates, others) ==
    IF conifer_candidates = <<>> /\ palm_candidates = <<>> /\ tree_candidates # <<>>
    THEN tree_candidates
    ELSE others

\* lines 571-578: the trees by kind
tree_kinds(tree_candidates) ==
    [trees_conifer |-> SelectSeq(tree_candidates, LAMBDA p : IsConifer[p]),
     trees_palm |-> SelectSeq(tree_candidates, LAMBDA p : IsPalm[p]),
     trees_broadleaf |->
         broadleaf_fallback(SelectSeq(tree_candidates, LAMBDA p : IsConifer[p]),
                            SelectSeq(tree_candidates, LAMBDA p : IsPalm[p]),
                            tree_candidates,
                            SelectSeq(tree_candidates,
                                      LAMBDA p : ~IsConifer[p] /\ ~IsPalm[p]))]

\* lines 550-564: the building candidates from the coarse buckets
building_candidates(suburban, industrial, building_kit) ==
    [euro_buildings |-> SelectSeq(suburban \o building_kit, LAMBDA p : EuroSelected[p]),
     industrial_buildings |->
         SelectSeq(industrial \o building_kit, LAMBDA p : IndustrialSelected[p]),
     beach_shacks |-> SelectSeq(suburban \o building_kit, LAMBDA p : ShackSelected[p])]

\* the record r with the fields of s added
Merge(r, s) == r @@ s

\* lines 544-578 of build_variant_pools: the candidates of every pool, from
\* model_files
variant_candidates(model_files) ==
    Merge(building_candidates(SelectSeq(model_files, LAMBDA p : InSuburban[p]),
                              SelectSeq(model_files, LAMBDA p : InIndustrial[p]),
                              SelectSeq(model_files, LAMBDA p : InBuildingKit[p])),
          tree_kinds(SelectSeq(SelectSeq(model_files, LAMBDA p : InNature[p]),
                               LAMBDA p : TreeSelected[p])))

\* lines 581-582
rp(xs) == [i \in DOMAIN xs |-> ResPath[xs[i]]]

\* lines 584-591
truncated_pools(c) ==
    [euro_buildings |-> Truncate(rp(c.euro_buildings), 24),
     industrial_buildings |-> Truncate(rp(c.industrial_buildings), 24),
     beach_shacks |-> Truncate(rp(c.beach_shacks), 24),
     trees_conifer |-> Truncate(rp(c.trees_conifer), 32),
     trees_broadleaf |-> Truncate(rp(c.trees_broadleaf), 32),
     trees_palm |-> Truncate(rp(c.trees_palm), 32)]

\* build_variant_pools(project_root, pack_dirs), from model_files on
build_variant_pools(model_files) ==
    CHOOSE pools \in {truncated_pools(c) : c \in {variant_candidates(model_files)}} : TRUE

\* ------------------------------------------- build_texture_sets, write_manifest

\* texture_mappings: for each key of the manifest's textures, the texture names
\* tried in order
TextureMappings ==
    [building_atlas_euro |-> <<"Bricks079", "Concrete023">>,
     building_atlas_industrial |-> <<"MetalPlates006", "Concrete023">>,
     terrain_grass |-> <<"Grass004">>,
     terrain_pavement |-> <<"Asphalt012", "Concrete023">>]

\* the manifest's channel and the glob suffix of its file (lines 620-648)
Channels ==
    [albedo |-> "*Color.jpg",
     normal |-> "*NormalGL.jpg",
     roughness |-> "*Roughness.jpg",
     metallic |-> "*Metalness.jpg",
     ao |-> "*AmbientOcclusion.jpg",
     height |-> "*Displacement.jpg"]

\* every entry the texture directory can hold
TextureDirNames ==
    {WithoutZip[x.file_name] : x \in Range(AMBIENTCG_TEXTURES)
        \cup Range(AMBIENTCG_WW2_TEXTURES) \cup Range(POLYHAVEN_TEXTURES)}
    \cup {"_zips"}

TextureNames == UNION {Range(TextureMappings[key]) : key \in DOMAIN TextureMappings}

\* whether textures_dir.glob(f"{tex_name}*") yields the entry d
TextureDirGlob ==
    Table([tex_name \in TextureNames, d \in TextureDirNames |->
             fnmatch(Chars(d), Chars(tex_name) \o Chars("*"))])

\* tex_dir.name.replace("_2K-JPG", "")
BaseName == Table([d \in TextureDirNames |-> remove_all(Chars(d), Chars("_2K-JPG"))])

\* whether tex_dir.glob(f"{base_name}{glob}") yields the file m; glob() is not
\* recursive
ChannelGlob ==
    Table([d \in TextureDirNames, ch \in DOMAIN Channels, m \in AllMembers |->
             /\ Len(m) = 1
             /\ fnmatch(Chars(m[1]), BaseName[d] \o Chars(Channels[ch]))])

\* _rel_res_path of the file m of tex_dir
TextureResPath ==
    Table([d \in TextureDirNames |->
             Table([m \in AllMembers |->
                      rel_res_path(ProjectRoot,
                                   ProjectRoot \o TexturesDirParts \o <<d>> \o m)])])

\* the files of tex_dir that a channel's glob yields
channel_files(dirs, d, ch) == {m \in DirFiles(dirs, d) : ChannelGlob[d, ch, m]}

\* lines 618-648: the channels tex_dir supplies.  glob()'s first result is any of
\* its results; the model's directories give every glob at most one.
texture_set(dirs, d) ==
    [ch \in {c \in DOMAIN Channels : channel_files(dirs, d, c) # {}} |->
        TextureResPath[d][CHOOSE m \in channel_files(dirs, d, ch) : TRUE]]

\* the entries textures_dir.glob(f"{tex_name}*") yields
tex_dirs(dirs, tex_name) == {d \in DOMAIN dirs : TextureDirGlob[tex_name, d]}

\* whether the name's first directory supplies a channel (lines 613-651)
supplies(dirs, tex_name) ==
    /\ tex_dirs(dirs, tex_name) # {}
    /\ \E ch \in DOMAIN Channels :
          channel_files(dirs, CHOOSE d \in tex_dirs(dirs, tex_name) : TRUE, ch) # {}

\* the loop leaving at the first name whose directory exists, whatever it supplies
first_existing_texture_set(dirs, names) ==
    LET k == CHOOSE k \in DOMAIN names :
                 /\ tex_dirs(dirs, names[k]) # {}
                 /\ \A j \in 1..(k - 1) : tex_dirs(dirs, names[j]) = {}
    IN texture_set(dirs, CHOOSE d \in tex_dirs(dirs, names[k]) : TRUE)

\* lines 611-652: the texture set of one key is that of the first of its names
\* whose directory exists and supplies a channel; the loop goes on to the next
\* name otherwise
first_texture_set(dirs, names) ==
    LET k == CHOOSE k \in DOMAIN names :
                 /\ supplies(dirs, names[k])
                 /\ \A j \in 1..(k - 1) : ~supplies(dirs, names[j])
    IN texture_set(dirs, CHOOSE d \in tex_dirs(dirs, names[k]) : TRUE)

\* build_texture_sets(project_root, textures_dir): a key none of whose names
\* supplies a channel is left out
build_texture_sets(exists, dirs) ==
    IF ~exists THEN NoFiles
    ELSE [key \in {k \in DOMAIN TextureMappings :
                      \E i \in DOMAIN TextureMappings[k] :
                          supplies(dirs, TextureMappings[k][i])} |->
             first_texture_set(dirs, TextureMappings[key])]

\* What this run put on disk: a directory holds the name of an archive only if
\* that archive was unpacked into it by this run.
KenneyProduced ==
    \E x \in Range(KENNEY_PACKS) \cup Range(KENNEY_WW2_PACKS) :
        x.slug \in DOMAIN packs /\ packs[x.slug] \cap ZipFiles # {}
PolyhavenProduced ==
    \E x \in Range(POLYHAVEN_ASSETS) :
        LET d == "polyhaven_" \o WithoutZip[x.file_name]
        IN d \in DOMAIN packs /\ packs[d] \cap ZipFiles # {}
PackProduced == \E d \in DOMAIN packs : packs[d] \cap ZipFiles # {}
TextureExtracted ==
    \E d \in (DOMAIN textures) \ {"_zips"} : textures[d] \cap ZipFiles # {}

\* has_assets read off the packs directory instead of pack_dirs
has_assets_on_disk(dirs) == DOMAIN packs # {}

\* has_assets counting the texture directories as well
has_assets_any(dirs) == Len(dirs) > 0 \/ TextureExtracted

\* has_assets with >= for >
has_assets_always(dirs) == Len(dirs) >= 0

\* has_assets asking for more than one pack directory
has_assets_several(dirs) == Len(dirs) > 1

\* line 667
has_assets(dirs) == Len(dirs) > 0

\* lines 699-700: packs_dir and textures_dir as the manifest names them
packs_dir == rel_res_path(ProjectRoot, ProjectRoot \o PacksDirParts)
textures_dir == rel_res_path(ProjectRoot, ProjectRoot \o TexturesDirParts)

\* write_manifest(project_root, packs_dir, textures_dir, variants, pack_dirs): the
\* data it serialises, generated_at and generated_by left out
write_manifest(variants, dirs) ==
    [exists |-> TRUE,
     version |-> 2,
     use_external_assets |-> has_assets(dirs),
     variants |-> IF ~has_assets(dirs) THEN EmptyVariants ELSE variants,
     textures |-> build_texture_sets(textures_exists, textures),
     packs_dir |-> packs_dir,
     textures_dir |-> textures_dir,
     status |-> [assets_downloaded |-> has_assets(dirs),
                 asset_count |-> Len(dirs),
                 warning |-> IF ~has_assets(dirs) THEN FallbackWarning ELSE OkWarning]]

\* main, lines 798-804: classify, write the manifest, return 0
WriteManifest ==
    /\ pc = "manifest"
    /\ \E scan \in Scans(pack_dirs) :
          /\ walked' = scan
          /\ manifest' = write_manifest(build_variant_pools(scan), pack_dirs)
    /\ writes' = writes + 1
    /\ pc' = "done"
    /\ idx' = 0
    /\ exit_code' = 0
    /\ last' = NoFetch
    /\ UNCHANGED <<args, has_root, ingest_exists, ingest, packs_exists, packs,
                   textures_exists, textures, pack_dirs, extracted_dirs,
                   call, result>>

Next ==
    \/ Start
    \/ KenneyLoop
    \/ KenneyWW2Loop
    \/ PolyhavenLoop
    \/ TextureLoop
    \/ TextureWW2Loop
    \/ TexturePolyhavenLoop
    \/ WriteManifest

Spec == Init /\ [][Next]_vars

\* The process is sequential and every call it makes returns or raises, so a run
\* that can take a step takes one.
FairSpec == Spec /\ WF_vars(Next)


\* ------------------------------------------- the classification on its own

\* main() at line 798 with one pack directory to classify: of the Kenney packs
\* only the building kit was fetched, by download, and what it unpacked is one
\* of ScenarioPacks; the run skipped the textures.
ClassifyInit ==
    /\ args = [NoFlags EXCEPT !.no_textures = TRUE]
    /\ has_root = TRUE
    /\ pc = "manifest"
    /\ idx = 0
    /\ ingest_exists = TRUE
    /\ ingest = Put(NoFiles, KenneyZipName(ScenarioDir), "good")
    /\ packs_exists = TRUE
    /\ \E pack \in ScenarioPacks : packs = Put(NoFiles, ScenarioDir, {pack})
    /\ textures_exists = FALSE
    /\ textures = NoFiles
    /\ manifest \in {NoManifest, OldManifest}
    /\ pack_dirs = <<ScenarioDir>>
    /\ extracted_dirs = <<>>
    /\ exit_code = -1
    /\ writes = 0
    /\ last = [NoFetch EXCEPT !.bundle = ScenarioDir, !.raised = TRUE]
    /\ walked = <<>>
    /\ call = NoCall
    /\ result = NoResult

\* build_variant_pools and write_manifest applied to those pack directories
ClassifySpec == ClassifyInit /\ [][WriteManifest]_vars
\* ------------------------------------------------------------ properties

ModelSections == {"kenney", "ww2", "polyhaven"}
TextureSections == {"tex", "texww2", "texph"}

\* the name of entry i of a section's catalog
BundleName(section, i) ==
    IF section \in {"kenney", "ww2"} THEN Catalog(section)[i].slug
    ELSE Catalog(section)[i].file_name

\* the cache files the lookup of entry i's fetcher matches
CacheHits(section, i, dir_exists, dir) ==
    LET name == BundleName(section, i) IN
    CASE section \in {"kenney", "ww2"} -> KenneyHits[name] \cap DOMAIN dir
      [] section = "polyhaven" ->
            IF dir_exists THEN PolyhavenHits[name] \cap DOMAIN dir ELSE {}
      [] OTHER -> AmbientHits[name] \cap DOMAIN dir

\* the cache files that match by the normalised containment of the bundle's name
NormalizedHits ==
    Table([name \in KnownStrings |-> {f \in ZipFiles : NormalizedMatch(name, f)}])

\* the run has written its manifest and returned
Written == pc = "done" /\ writes = 1

\* C1: in the manifest a run writes, use_external_assets is true exactly when a
\* model pack directory was fetched and unpacked during that run, whatever
\* manifest and pack directories an earlier run left behind.
FlagIffPackProducedThisRun ==
    Written => (manifest.use_external_assets <=> PackProduced)

\* a run on a tree with an earlier run's pack and manifest, whose own fetches all
\* failed, wrote use_external_assets = false
StalePackFlagFalse ==
    /\ Written
    /\ "kenney_building-kit" \in DOMAIN packs
    /\ packs["kenney_building-kit"] = OldPack
    /\ ~PackProduced
    /\ manifest.use_external_assets = FALSE

\* C2 as stated: use_external_assets is true exactly when a bundle of any kind,
\* model pack or texture, was unpacked in the run.
FlagIffAnyBundleExtracted ==
    Written => (manifest.use_external_assets <=> (PackProduced \/ TextureExtracted))

\* C2: use_external_assets is true exactly when a Kenney pack or a Poly Haven
\* asset was unpacked in the run; unpacked textures do not count, so a run that
\* unpacks textures and no model pack writes false.
FlagIffModelBundleExtracted ==
    /\ Written => (manifest.use_external_assets <=> (KenneyProduced \/ PolyhavenProduced))
    /\ Written /\ TextureExtracted /\ ~KenneyProduced /\ ~PolyhavenProduced
          => manifest.use_external_assets = FALSE

\* a run that unpacked a texture and no model pack
TextureOnlyRun ==
    /\ Written
    /\ TextureExtracted
    /\ ~KenneyProduced /\ ~PolyhavenProduced
    /\ manifest.use_external_assets = FALSE

\* C3: when the run unpacked no model pack, the manifest's variants map each of
\* the six pool keys to the empty list, status.assets_downloaded is false and
\* the warning is the fallback warning.
NoPackEmptyPools ==
    Written /\ ~PackProduced =>
        /\ DOMAIN manifest.variants =
              {"euro_buildings", "industrial_buildings", "beach_shacks",
               "trees_conifer", "trees_broadleaf", "trees_palm"}
        /\ \A k \in DOMAIN manifest.variants : manifest.variants[k] = <<>>
        /\ manifest.status.assets_downloaded = FALSE
        /\ manifest.status.warning = FallbackWarning

\* no pack unpacked, with an earlier run's model file still in the packs directory
NoPackWithStaleModels ==
    /\ Written
    /\ ~PackProduced
    /\ \E d \in DOMAIN packs : <<"old_house.glb">> \in DirFiles(packs, d)
    /\ manifest.variants = EmptyVariants
    /\ manifest.status.warning = FallbackWarning

\* C4 as stated: every run that finds the project root eventually writes the
\* manifest exactly once and exits with code 0.
RootFoundWritesManifest ==
    /\ [](writes <= 1)
    /\ (has_root ~> (pc = "done" /\ writes = 1 /\ exit_code = 0))

\* C4: every run that finds the project root and is not asked to list the cache
\* only (--list-assets) eventually writes the manifest exactly once and exits
\* with code 0, whichever fetches fail.
FetchingRunWritesManifest ==
    /\ [](writes <= 1)
    /\ ((has_root /\ ~args.list_assets) ~> (pc = "done" /\ writes = 1 /\ exit_code = 0))

\* a run in which no model pack was produced and a texture list was abandoned has
\* written the manifest and returned 0
FailedRunWroteManifest ==
    /\ pc = "done"
    /\ has_root /\ ~args.list_assets
    /\ writes = 1 /\ exit_code = 0
    /\ pack_dirs = <<>>
    /\ "_zips" \in DOMAIN textures /\ ~TextureExtracted

\* the model bundles of a run, in the order main() goes through its catalogs
ModelPlan(a) ==
    [i \in DOMAIN KENNEY_PACKS |-> KENNEY_PACKS[i].slug]
    \o (IF a.ww2_assets THEN [i \in DOMAIN KENNEY_WW2_PACKS |-> KENNEY_WW2_PACKS[i].slug]
        ELSE <<>>)
    \o (IF a.polyhaven THEN [i \in DOMAIN POLYHAVEN_ASSETS |-> POLYHAVEN_ASSETS[i].file_name]
        ELSE <<>>)

\* where in that order entry i of a model section stands
PlanPosition(section, i, a) ==
    CASE section = "kenney" -> i
      [] section = "ww2" -> Len(KENNEY_PACKS) + i
      [] section = "polyhaven" ->
            Len(KENNEY_PACKS) + (IF a.ww2_assets THEN Len(KENNEY_WW2_PACKS) ELSE 0) + i

\* C5: a step from a model bundle attempts that bundle and, whether the attempt
\* failed or not, leaves main() at the next model bundle of the run in catalog
\* order, or past the model bundles when it was the last.
ModelBundlesAllAttempted ==
    [][(pc \in ModelSections) =>
         (LET plan == ModelPlan(args)
              k == PlanPosition(pc, idx, args)
          IN /\ last'.bundle = plan[k]
             /\ (k < Len(plan) =>
                   pc' \in ModelSections /\ PlanPosition(pc', idx', args') = k + 1)
             /\ (k = Len(plan) => pc' \notin ModelSections))]_vars

\* the fetch of the first Kenney pack raised and main() is at the second
SecondPackAfterFailure ==
    /\ pc = "kenney" /\ idx = 2
    /\ last.bundle = "kenney_building-kit"
    /\ last.raised

\* C6: a step from a texture that is not the last of its list leaves main() at
\* the next texture of the list, whatever went wrong with this one.
TexturesAllAttempted ==
    [][(pc \in TextureSections /\ idx < Len(Catalog(pc))) =>
         pc' = pc /\ idx' = idx + 1]_vars

\* C7: with --local-only no fetch requests a page or a download.
LocalOnlyNoNetwork == args.local_only => last.requests = {}

\* C8: a fetch that finds in the cache a file matching its bundle's name uses
\* such a file and makes no network request.
CacheHitNoNetwork ==
    [][(/\ pc \in ModelSections \cup TextureSections
        /\ NormalizedHits[BundleName(pc, idx)] \cap DOMAIN ingest # {}) =>
         /\ last'.cached \in NormalizedHits[BundleName(pc, idx)] \cap DOMAIN ingest
         /\ last'.requests = {}]_vars

\* C9: a fetch that downloaded its bundle leaves in the cache a new file that the
\* lookup of the same bundle's fetcher matches, and no fetch removes a file from
\* the cache.
DownloadIsCached ==
    [][/\ DOMAIN ingest \subseteq DOMAIN ingest'
       /\ (pc \in ModelSections \cup TextureSections /\ last'.downloaded =>
             CacheHits(pc, idx, ingest_exists', ingest') \ DOMAIN ingest # {})]_vars

\* a texture that was not in the cache has been downloaded and is in it now
DownloadedTextureCached ==
    /\ last.downloaded
    /\ last.bundle = "Concrete023_2K-JPG.zip"
    /\ "Concrete023_2K-JPG.zip" \in DOMAIN ingest
    /\ "Concrete023_2K-JPG.zip" \in CacheHits("tex", 1, ingest_exists, ingest)

\* C10: whenever a bundle is looked up, the files its fetcher's lookup matches are
\* those whose name, lowercased and without '_' and '-', contains the bundle's
\* name, lowercased and without '_' and '-'.
LookupIsNormalized ==
    pc \in ModelSections \cup TextureSections =>
        CacheHits(pc, idx, ingest_exists, ingest)
            = NormalizedHits[BundleName(pc, idx)] \cap DOMAIN ingest


\* the files this run unpacked into the directory d of a tree of directories
FreshFiles(dirs, d) == UNION { Members(source) : source \in dirs[d] \cap ZipFiles }

\* the resource paths of the model files this run unpacked
FreshModelPaths ==
    UNION { {ResPath[[root |-> ProjectRoot, dir |-> d, member |-> m]] :
                m \in FreshFiles(packs, d)} : d \in DOMAIN packs }

\* the resource paths of the texture files this run unpacked
FreshTexturePaths ==
    UNION { {TextureResPath[d][m] : m \in FreshFiles(textures, d)} :
              d \in (DOMAIN textures) \ {"_zips"} }

\* C11: every entry of variants and of textures in the manifest a run writes is a
\* file of a bundle that run extracted; what an earlier run left in the texture
\* directory contributes nothing.
ManifestFromThisRun ==
    Written =>
        /\ \A pool \in DOMAIN manifest.variants :
              \A i \in DOMAIN manifest.variants[pool] :
                  manifest.variants[pool][i] \in FreshModelPaths
        /\ \A key \in DOMAIN manifest.textures :
              \A ch \in DOMAIN manifest.textures[key] :
                  manifest.textures[key][ch] \in FreshTexturePaths

\* C12: the manifest a run writes does not depend on the order in which the
\* filesystem enumerates the files of the packs: whatever order the walks yield,
\* the manifest is the same.
ManifestSameInEveryOrder ==
    pc = "manifest" =>
        \A s1, s2 \in Scans(pack_dirs) :
            write_manifest(build_variant_pools(s1), pack_dirs)
                = write_manifest(build_variant_pools(s2), pack_dirs)

\* C13: in the manifest a run writes, no path appears twice in the same variant
\* pool.
NoDuplicateInPool ==
    Written =>
        \A pool \in DOMAIN manifest.variants :
            \A i, j \in DOMAIN manifest.variants[pool] :
                i # j => manifest.variants[pool][i] # manifest.variants[pool][j]

\* the cap of each pool (lines 584-591)
Cap ==
    [euro_buildings |-> 24, industrial_buildings |-> 24, beach_shacks |-> 24,
     trees_conifer |-> 32, trees_broadleaf |-> 32, trees_palm |-> 32]

\* the candidates of a pool as resource paths, in the order of the scan
CandidatePaths(pool) == rp(variant_candidates(walked)[pool])

\* C14: every pool of the manifest is the prefix, in scan order, of its candidate
\* list, cut at the pool's cap: 24 entries for the building and shack pools, 32
\* for the tree pools.
PoolIsCappedPrefix ==
    Written =>
        \A pool \in DOMAIN Cap :
            /\ Len(manifest.variants[pool]) =
                  (IF Len(CandidatePaths(pool)) < Cap[pool]
                   THEN Len(CandidatePaths(pool)) ELSE Cap[pool])
            /\ \A i \in DOMAIN manifest.variants[pool] :
                  manifest.variants[pool][i] = CandidatePaths(pool)[i]

\* a pack with 33 candidates for every pool was classified: the building pools
\* hold 24 of them, the tree pools 32
PoolsCut ==
    /\ Written
    /\ \A pool \in DOMAIN Cap :
          /\ Len(CandidatePaths(pool)) = NFiles
          /\ Len(manifest.variants[pool]) = Cap[pool]
          /\ manifest.variants[pool][1] = CandidatePaths(pool)[1]

\* the text is res:// followed by a path that is relative: it neither starts at
\* the filesystem's root nor holds the project root's own path
RelativeResPath(s) ==
    /\ Len(s) > 6
    /\ SubSeq(Chars(s), 1, 6) = Chars("res://")
    /\ Chars(s)[7] # "/"
    /\ ~contains(<<"/">> \o JoinChars(ProjectRoot) \o <<"/">>, <<"/">> \o SubSeq(Chars(s), 7, Len(s)))

\* C15: every resource path of a written manifest (pool entries, texture
\* channels, packs_dir, textures_dir) is res:// followed by a path relative to the
\* project root, never an absolute path.
ManifestPathsRelative ==
    Written =>
        /\ RelativeResPath(manifest.packs_dir)
        /\ RelativeResPath(manifest.textures_dir)
        /\ \A pool \in DOMAIN manifest.variants :
              \A i \in DOMAIN manifest.variants[pool] :
                  RelativeResPath(manifest.variants[pool][i])
        /\ \A key \in DOMAIN manifest.textures :
              \A ch \in DOMAIN manifest.textures[key] :
                  RelativeResPath(manifest.textures[key][ch])

\* a manifest was written that names model files and texture files
ManifestNamesFiles ==
    /\ Written
    /\ manifest.variants.euro_buildings # <<>>
    /\ manifest.textures # NoFiles
    /\ manifest.packs_dir = "res://assets/external/packs"

\* the pack of small_house_01.fbx, house_door.fbx and warehouse_02.fbx has been
\* classified and the manifest written
HousesWritten == Written /\ packs = Put(NoFiles, ScenarioDir, {HousesPack})

\* the resource path of a file at the top of the scenario's pack directory
HousePath(name) == "res://assets/external/packs/kenney_building-kit/" \o name

\* fnmatch(name, pat) holds for one of the patterns, on the lowercased name of p
MatchesOne(p, patterns) ==
    \E i \in DOMAIN patterns :
        fnmatch(lower(Chars(FileName(p))), lower(Chars(patterns[i])))

\* C16 as stated: for that pack euro_buildings is exactly [small_house_01.fbx] and
\* industrial_buildings exactly [warehouse_02.fbx].
HousesPoolsAsStated ==
    HousesWritten =>
        /\ manifest.variants.euro_buildings = <<HousePath("small_house_01.fbx")>>
        /\ manifest.variants.industrial_buildings = <<HousePath("warehouse_02.fbx")>>

\* C16: for that pack euro_buildings holds small_house_01.fbx and
\* warehouse_02.fbx, which matches *house* as well, once each and in scan order,
\* and industrial_buildings is exactly [warehouse_02.fbx]; a file of the pack is in
\* a pool iff its name matches an include glob of the pool and no exclude glob.
HousesPools ==
    HousesWritten =>
        /\ manifest.variants.euro_buildings =
              SelectSeq(rp(walked), LAMBDA s : s \in {HousePath("small_house_01.fbx"),
                                                      HousePath("warehouse_02.fbx")})
        /\ Len(manifest.variants.euro_buildings) = 2
        /\ manifest.variants.industrial_buildings = <<HousePath("warehouse_02.fbx")>>
        /\ \A i \in DOMAIN walked :
              /\ (ResPath[walked[i]] \in Range(manifest.variants.euro_buildings))
                    <=> (MatchesOne(walked[i], EuroInclude)
                            /\ ~MatchesOne(walked[i], EuroExclude))
              /\ (ResPath[walked[i]] \in Range(manifest.variants.industrial_buildings))
                    <=> (MatchesOne(walked[i], IndustrialInclude)
                            /\ ~MatchesOne(walked[i], IndustrialExclude))

\* the pack was enumerated with the warehouse first, and euro_buildings starts
\* with it
WarehouseAmongEuro ==
    /\ HousesWritten
    /\ Len(walked) = 3
    /\ manifest.variants.euro_buildings =
          <<HousePath("warehouse_02.fbx"), HousePath("small_house_01.fbx")>>

\* the tree candidates of the scan (lines 565-569), and those whose name holds
\* neither a conifer keyword nor 'palm'
TreeCandidates == SelectSeq(walked, LAMBDA p : InNature[p] /\ TreeSelected[p])
PlainTrees == SelectSeq(TreeCandidates, LAMBDA p : ~IsConifer[p] /\ ~IsPalm[p])

\* the pack of palm_tall.fbx and generic_tree_01.fbx has been classified and the
\* manifest written
TreesWritten == Written /\ packs = Put(NoFiles, ScenarioDir, {TreesPack})

\* the resource path of a file of the scenario's nature directory
TreePath(name) == "res://assets/external/packs/kenney_building-kit/nature/" \o name

\* C17: trees_broadleaf holds the tree candidates that match neither a conifer
\* keyword nor the palm keyword, and holds all candidates only when none of them
\* matches such a keyword; for palm_tall.fbx and generic_tree_01.fbx the pools
\* are trees_palm = [palm_tall.fbx], trees_broadleaf = [generic_tree_01.fbx] and
\* trees_conifer = [].
BroadleafIsTheRest ==
    /\ Written =>
          /\ manifest.variants.trees_broadleaf = Truncate(rp(PlainTrees), Cap.trees_broadleaf)
          /\ (PlainTrees # TreeCandidates) <=>
                (\E i \in DOMAIN TreeCandidates :
                    IsConifer[TreeCandidates[i]] \/ IsPalm[TreeCandidates[i]])
    /\ TreesWritten =>
          /\ manifest.variants.trees_palm = <<TreePath("palm_tall.fbx")>>
          /\ manifest.variants.trees_broadleaf = <<TreePath("generic_tree_01.fbx")>>
          /\ manifest.variants.trees_conifer = <<>>

\* the palm and the plain tree were classified: one palm, one broadleaf
PalmAndBroadleaf ==
    /\ TreesWritten
    /\ Len(TreeCandidates) = 2
    /\ manifest.variants.trees_palm = <<TreePath("palm_tall.fbx")>>
    /\ manifest.variants.trees_broadleaf = <<TreePath("generic_tree_01.fbx")>>

\* the directory d of the tree holds the members of the archive z and nothing else
HoldsExactly(dirs, d, z) == dirs[d] = {z} /\ DirFiles(dirs, d) = Members(z)

\* C18: a step that unpacks a readable archive of a model pack, a Poly Haven asset
\* or a texture leaves in the bundle's directory exactly the contents of that
\* archive; nothing an earlier extraction put there survives.
ExtractionReplaces ==
    [][/\ (pc \in ModelSections /\ pack_dirs' # pack_dirs) =>
             \E z \in DOMAIN ingest' :
                 /\ ingest'[z] = "good"
                 /\ HoldsExactly(packs', pack_dirs'[Len(pack_dirs')], z)
       /\ (pc \in TextureSections /\ ~last'.raised
               /\ (last'.cached # "" \/ last'.downloaded)) =>
             \E z \in DOMAIN ingest' :
                 /\ ingest'[z] = "good"
                 /\ HoldsExactly(textures', extracted_dirs'[Len(extracted_dirs')], z)]_vars

\* the pack directory and the texture directory an earlier run had filled have
\* both been unpacked again
StaleDirectoriesReplaced ==
    /\ manifest = OldManifest
    /\ "kenney_building-kit" \in DOMAIN packs
    /\ HoldsExactly(packs, "kenney_building-kit", "kenney_building-kit.zip")
    /\ "Concrete023_2K-JPG" \in DOMAIN textures
    /\ HoldsExactly(textures, "Concrete023_2K-JPG", "Concrete023_2K-JPG.zip")

\* C19: when no project marker is found, the run's only step ends it with a
\* non-zero exit code: no directory is created, nothing is requested from the
\* network, and no manifest is written or changed.
NoRootNoWork ==
    [][~has_root =>
          /\ pc' = "done"
          /\ exit_code' # 0
          /\ UNCHANGED fs
          /\ last'.requests = {}
          /\ ~last'.downloaded
          /\ writes' = 0]_vars

\* a run without a project marker has ended, on a tree with an earlier manifest
AbortedWithoutRoot ==
    /\ ~has_root
    /\ pc = "done"
    /\ exit_code = 1
    /\ manifest = OldManifest
    /\ writes = 0

\* a step of the run fetches nothing, extracts nothing, creates no directory and
\* leaves the manifest as it is
ReportsOnly ==
    /\ pc' = "done"
    /\ UNCHANGED fs
    /\ last'.requests = {}
    /\ ~last'.downloaded
    /\ pack_dirs' = <<>>
    /\ extracted_dirs' = <<>>
    /\ writes' = 0

\* C20 as stated: with --list-assets the run only reports and exits 0, whatever
\* else the command line holds.
ListOnlyExitsZero ==
    [][args.list_assets => (ReportsOnly /\ exit_code' = 0)]_vars

\* C20: with --list-assets the run only reports, whatever other flags are set; it
\* exits 0 when the project root is found, and non-zero when it is not.
ListOnlyReports ==
    [][args.list_assets =>
          /\ ReportsOnly
          /\ has_root => exit_code' = 0
          /\ ~has_root => exit_code' # 0]_vars

\* a run with --list-assets and --all has ended with exit code 0 in a project
\* without a cache directory, and there is still none
ListedWithoutCache ==
    /\ args.list_assets
    /\ args.all
    /\ has_root
    /\ pc = "done"
    /\ exit_code = 0
    /\ ~ingest_exists
    /\ manifest = NoManifest

\* ------------------------------------------------------------ find_local_zip

\* str.strip(): leading and trailing blanks removed
RECURSIVE strip(_)
strip(cs) ==
    IF cs = <<>> THEN <<>>
    ELSE IF Head(cs) = " " THEN strip(Tail(cs))
    ELSE IF cs[Len(cs)] = " " THEN strip(SubSeq(cs, 1, Len(cs) - 1))
    ELSE cs

\* find_local_zip's test with line 242 only
local_zip_matches_whole(pack_slug, fname) ==
    contains(normalize(Chars(pack_slug)), normalize(Chars(fname)))

\* lines 235-247: whether the loop returns the file: its normalised name holds the
\* normalised slug, or the normalised slug with every 'kenney' taken out
local_zip_matches(pack_slug, fname) ==
    \/ contains(normalize(Chars(pack_slug)), normalize(Chars(fname)))
    \/ contains(strip(remove_all(normalize(Chars(pack_slug)), Chars("kenney"))),
                normalize(Chars(fname)))

\* the first element of the listing that is an archive the loop returns; "" stands
\* for None
first_local_zip(pack_slug, listing) ==
    FirstThat(listing, {i \in DOMAIN listing :
                           IsZip(listing[i]) /\ local_zip_matches(pack_slug, listing[i])})

\* find_local_zip(packs_dir, pack_slug), lines 230-248, on a cache directory that
\* exists or not and whose glob yields its archives in the order of listing
find_local_zip(exists, listing, pack_slug) ==
    IF exists THEN first_local_zip(pack_slug, listing) ELSE ""

\* the names the cache of a lookup holds, and the bundle names looked up
FindUniverse == {"kenney_ww2.zip", "ww2_tanks.zip", "Kenney_City-Kit-Suburban.zip", "readme.txt"}
FindSlugs == {"kenney_ww2", "kenney_tanks", "kenney_city-kit-suburban", "hangar_01"}

\* the orders in which glob can yield the files of a directory
Listings(files) ==
    {w \in [1..Cardinality(files) -> files] : \A i, j \in DOMAIN w : i # j => w[i] # w[j]}

\* how many files the cache of a lookup holds at most
MaxListed == 3

\* a directory that does not exist holds nothing
FindCalls ==
    {c \in [fn : {"find_local_zip"}, exists : BOOLEAN,
            listing : UNION {Listings(S) :
                               S \in {T \in SUBSET FindUniverse : Cardinality(T) <= MaxListed}},
            pack_slug : FindSlugs] :
        ~c.exists => c.listing = <<>>}

\* --------------------------------------------------------- find_project_root

\* A directory is named by its depth: 0 is the root of the filesystem, whose
\* parent is itself, and the parent of any other directory is one level up.
parent(cur) == IF cur = 0 THEN 0 ELSE cur - 1

\* how deep the start path lies at most
MaxDepth == 14

\* how many directories hold a project.godot at most
MaxMarkers == 2

\* line 207: range(12)
Levels == 12

NotFound == [found |-> FALSE, dir |-> 0]
Found(cur) == [found |-> TRUE, dir |-> cur]

\* the loop going up until the root of the filesystem, however far that is
RECURSIVE walk_up_unbounded(_, _, _)
walk_up_unbounded(cur, n, markers) ==
    IF cur \in markers THEN Found(cur)
    ELSE IF parent(cur) = cur THEN NotFound
    ELSE walk_up_unbounded(parent(cur), n, markers)

\* lines 207-215: the loop with n iterations left, at cur
RECURSIVE walk_up(_, _, _)
walk_up(cur, n, markers) ==
    IF n = 0 THEN NotFound
    ELSE IF cur \in markers THEN Found(cur)
    ELSE IF parent(cur) = cur THEN NotFound
    ELSE walk_up(parent(cur), n - 1, markers)

\* lines 203-206: the directory the walk starts in; start is a directory, or a
\* file, whose parent is taken
start_dir(start) == IF start.is_file THEN parent(start.depth) ELSE start.depth

\* find_project_root(start), lines 202-215, over the directories that hold a
\* project.godot; NotFound stands for FileNotFoundError
find_project_root_from(start, markers) == walk_up(start_dir(start), Levels, markers)

RootCalls ==
    [fn : {"find_project_root"},
     start : {s \in [depth : 0..MaxDepth, is_file : BOOLEAN] : s.is_file => s.depth > 0},
     markers : {M \in SUBSET (0..MaxDepth) : Cardinality(M) <= MaxMarkers}]

\* ----------------------------------------------- the link scrapers' inputs

\* the sequences of at most n different elements of S
SeqsUpTo(S, n) == UNION {Listings(T) : T \in {U \in SUBSET S : Cardinality(U) <= n}}

\* how many links a page holds at most
MaxLinks == 3

\* Links a Kenney page can hold: two written as they are on the site, and three
\* written the way the expression of line 279 takes them, with a backslash and one
\* more character where the address has its dots.
KenneyTokens ==
    { "https://kenney.nl/media/pages/assets/kenney_a.zip",
      "https://kenney.nl/media/pages/assets/kenney_building-kit.zip",
      "https://kenney\\.nl/media/pages/assets/kenney_a\\.zip",
      "https://kenney\\.nl/media/pages/assets/kenney_building-kit\\.zip",
      "https://kenney\\.nl/a\\.zip" }

KenneyCalls ==
    [fn : {"_pick_best_kenney_zip_link"}, html : SeqsUpTo(KenneyTokens, MaxLinks),
     slug : {"kenney_building-kit"}]

\* links a Poly Haven page can hold
PolyhavenTokens ==
    { "https://cdn.polyhaven.com/asset_downloads/hangar_01.zip",
      "https://polyhaven.com/a/hangar_01/download",
      "https://x.org/get?file=hangar_01.zip",
      "https://dl.polyhaven.org/file/ph-assets/Models/hangar_01.blend",
      "https://www.polyhaven.com/about" }

PolyhavenCalls ==
    [fn : {"_parse_polyhaven_download_url"}, html : SeqsUpTo(PolyhavenTokens, MaxLinks)]

\* ------------------------------------------- the helper functions on their own

\* One of the helper functions is called on its own; main() does not run.
HelperInit ==
    /\ args = NoFlags
    /\ has_root = FALSE
    /\ pc = "done"
    /\ idx = 0
    /\ ingest_exists = FALSE
    /\ ingest = NoFiles
    /\ packs_exists = FALSE
    /\ packs = NoFiles
    /\ textures_exists = FALSE
    /\ textures = NoFiles
    /\ manifest = NoManifest
    /\ pack_dirs = <<>>
    /\ extracted_dirs = <<>>
    /\ exit_code = -1
    /\ writes = 0
    /\ last = NoFetch
    /\ walked = <<>>
    /\ call \in FindCalls \cup RootCalls \cup KenneyCalls \cup PolyhavenCalls
    /\ result = NoResult

Returned(value) == [done |-> TRUE, value |-> value]

main_vars == <<args, has_root, pc, idx, ingest_exists, ingest, packs_exists, packs,
               textures_exists, textures, manifest, pack_dirs, extracted_dirs,
               exit_code, writes, last, walked>>

FindLocalZip ==
    /\ call.fn = "find_local_zip"
    /\ ~result.done
    /\ result' = Returned(find_local_zip(call.exists, call.listing, call.pack_slug))
    /\ UNCHANGED <<main_vars, call>>

FindProjectRoot ==
    /\ call.fn = "find_project_root"
    /\ ~result.done
    /\ result' = Returned(find_project_root_from(call.start, call.markers))
    /\ UNCHANGED <<main_vars, call>>

PickKenneyLink ==
    /\ call.fn = "_pick_best_kenney_zip_link"
    /\ ~result.done
    /\ result' = Returned(pick_best_kenney_zip_link(call.html))
    /\ UNCHANGED <<main_vars, call>>

ParsePolyhaven ==
    /\ call.fn = "_parse_polyhaven_download_url"
    /\ ~result.done
    /\ result' = Returned(parse_polyhaven_download_url(call.html))
    /\ UNCHANGED <<main_vars, call>>

HelperNext == FindLocalZip \/ FindProjectRoot \/ PickKenneyLink \/ ParsePolyhaven

HelperSpec == HelperInit /\ [][HelperNext]_vars

\* ------------------------------------------------ properties of the helpers

\* C21: find_local_zip returns a file of the cache only if the file's name,
\* lowercased and without '_' and '-', contains the bundle's name treated the same
\* way, and returns nothing when no file of the cache does.
FindMatchesNormalizedName ==
    (call.fn = "find_local_zip" /\ result.done) =>
        /\ result.value # "" =>
              /\ result.value \in Range(call.listing)
              /\ NormalizedMatch(call.pack_slug, result.value)
        /\ (\A i \in DOMAIN call.listing :
               ~(IsZip(call.listing[i]) /\ NormalizedMatch(call.pack_slug, call.listing[i])))
              => result.value = ""

\* the directory the walk of a call starts in
StartDirectory == IF call.start.is_file THEN call.start.depth - 1 ELSE call.start.depth

\* the directories with a marker among the start directory and its ancestors up
\* to n levels above it
MarkersWithin(n) ==
    {d \in call.markers : d <= StartDirectory /\ StartDirectory - d <= n}

\* C22 as stated: the resolver returns the nearest directory with the marker among
\* the start directory and its ancestors up to 12 levels above it, and fails only
\* if none of them holds the marker.
RootWithinTwelveAbove ==
    (call.fn = "find_project_root" /\ result.done) =>
        IF MarkersWithin(12) = {}
        THEN ~result.value.found
        ELSE result.value.found /\ result.value.dir = Greatest(MarkersWithin(12))

\* C22: the resolver returns the nearest directory with the marker among the
\* start directory (the parent of a start file) and its ancestors up to 11 levels
\* above it, twelve directories in all, and fails only if none of them holds the
\* marker.
RootWithinElevenAbove ==
    (call.fn = "find_project_root" /\ result.done) =>
        IF MarkersWithin(11) = {}
        THEN ~result.value.found
        ELSE result.value.found /\ result.value.dir = Greatest(MarkersWithin(11))

\* from a file, the marker 11 levels above the file's directory was found, past a
\* start that has no marker of its own
RootFoundEleventhAbove ==
    /\ call.fn = "find_project_root"
    /\ result.done
    /\ call.start.is_file
    /\ result.value.found
    /\ StartDirectory - result.value.dir = 11
    /\ Cardinality(call.markers) = 2

\* a direct-download link of the site: https://kenney.nl/, a path, .zip
KnownShape(token) ==
    /\ At(Chars(token), 1, Chars("https://kenney.nl/"))
    /\ endswith(Chars(token), Chars(".zip"))
    /\ Len(token) > Len("https://kenney.nl/") + Len(".zip")

\* C23: whenever the page holds at least one link of the shape
\* https://kenney.nl/....zip, _pick_best_kenney_zip_link returns one of those
\* links, so that the fetch does not fail for want of a download link; it returns
\* none only when the page holds no such link.
KnownShapeLinkFound ==
    (call.fn = "_pick_best_kenney_zip_link" /\ result.done) =>
        IF \E i \in DOMAIN call.html : KnownShape(call.html[i])
        THEN \E i \in DOMAIN call.html :
                KnownShape(call.html[i]) /\ result.value = call.html[i]
        ELSE result.value = ""

\* the candidates that hold the canonical path segment and the bundle's name
NamedCandidates(zips, slug) ==
    {i \in DOMAIN zips : /\ contains(Chars("/media/pages/assets/"), Chars(zips[i]))
                         /\ contains(Chars(slug), Chars(zips[i]))}

\* C24: of the candidate links scraped from the page, the one chosen is the last
\* that holds both /media/pages/assets/ and the name of the bundle being fetched,
\* and the last candidate of all only if none holds both.
LastNamedCandidateChosen ==
    (/\ call.fn = "_pick_best_kenney_zip_link"
     /\ result.done
     /\ FindAllKenneyZips(call.html) # <<>>) =>
        result.value =
            FindAllKenneyZips(call.html)[
                IF NamedCandidates(FindAllKenneyZips(call.html), call.slug) # {}
                THEN Greatest(NamedCandidates(FindAllKenneyZips(call.html), call.slug))
                ELSE Len(FindAllKenneyZips(call.html))]

\* the listed patterns that match somewhere on the page of a call
MatchingPatterns ==
    {k \in DOMAIN PolyhavenPatterns : FindAll(call.html, PolyhavenPatterns[k]) # <<>>}

\* the links of the page that hold "polyhaven" and, in lower case, one of
\* "download", "asset" and "cdn", in page order
LastResortLinks ==
    SelectSeq(FindAll(call.html, PolyhavenAnyLink),
              LAMBDA link : \E word \in {"download", "asset", "cdn"} :
                                contains(Chars(word), lower(Chars(link))))

\* the returned link is a match of the first listed pattern that matches
FromFirstMatchingPattern ==
    result.value \in Range(FindAll(call.html, PolyhavenPatterns[Least(MatchingPatterns)]))

ExistingCandidates(key) ==
    {i \in DOMAIN TextureMappings[key] : tex_dirs(textures, TextureMappings[key][i]) # {}}

\* the directory of the first candidate of a key whose directory exists
FirstExistingDir(key) ==
    CHOOSE d \in tex_dirs(textures, TextureMappings[key][Least(ExistingCandidates(key))]) : TRUE

\* C26 as stated: a key's texture set is built from the first candidate, in list
\* order, whose directory exists under the texture root, and from that one only,
\* even if that directory supplies no channel file.
FirstExistingCandidateOnly ==
    Written =>
        \A key \in DOMAIN manifest.textures :
            manifest.textures[key] = texture_set(textures, FirstExistingDir(key))

\* whether the directory of the i-th candidate of a key exists and holds a file of
\* at least one channel
SuppliesChannel(key, i) ==
    /\ tex_dirs(textures, TextureMappings[key][i]) # {}
    /\ \E d \in tex_dirs(textures, TextureMappings[key][i]) :
          \E ch \in DOMAIN Channels : channel_files(textures, d, ch) # {}

SupplyingCandidates(key) == {i \in DOMAIN TextureMappings[key] : SuppliesChannel(key, i)}

\* the resource path of the directory of the first candidate of a key that
\* supplies a channel file
FirstSupplyingDirPath(key) ==
    Chars("res://assets/external/textures/ambientcg/")
        \o Chars(CHOOSE d \in tex_dirs(textures,
                     TextureMappings[key][Least(SupplyingCandidates(key))]) : TRUE)
        \o Chars("/")

\* C26: a key's texture set is built from the first candidate, in list order,
\* whose directory exists under the texture root and supplies at least one channel
\* file, and from that one only; a key with no such candidate has no texture set.
FirstSupplyingCandidateOnly ==
    Written =>
        \A key \in DOMAIN TextureMappings :
            IF SupplyingCandidates(key) = {} THEN key \notin DOMAIN manifest.textures
            ELSE /\ key \in DOMAIN manifest.textures
                 /\ DOMAIN manifest.textures[key] # {}
                 /\ \A ch \in DOMAIN manifest.textures[key] :
                       At(Chars(manifest.textures[key][ch]), 1, FirstSupplyingDirPath(key))

\* a manifest was written whose pavement textures come from the second candidate,
\* the directory of the first one existing and supplying no channel file
SecondCandidateBacksPavement ==
    /\ Written
    /\ ExistingCandidates("terrain_pavement") = {1, 2}
    /\ SupplyingCandidates("terrain_pavement") = {2}
    /\ "terrain_pavement" \in DOMAIN manifest.textures

\* the coarse origin buckets a model file falls into
Buckets(p) ==
    [suburban |-> InSuburban[p], industrial |-> InIndustrial[p],
     building_kit |-> InBuildingKit[p], nature |-> InNature[p]]

\* C27: the coarse origin buckets of a model file are determined by the pack
\* directory it was found in: two files of the same pack directory fall into the
\* same buckets, whatever their names.
BucketsFollowPackDirectory ==
    \A i, j \in DOMAIN walked :
        walked[i].dir = walked[j].dir => Buckets(walked[i]) = Buckets(walked[j])

\* C28: a fetch whose download was requested and did not complete leaves in the
\* cache no file that the lookup of its bundle matches.
FailedDownloadLeavesNoFile ==
    [][(/\ pc \in ModelSections \cup TextureSections
        /\ "download" \in last'.requests
        /\ ~last'.downloaded) =>
         CacheHits(pc, idx, ingest_exists', ingest') = {}]_vars

\* the tree pools, before truncation, of the files that were scanned
TreePools == tree_kinds(SelectSeq(SelectSeq(walked, LAMBDA p : InNature[p]),
                                  LAMBDA p : TreeSelected[p]))

\* C29: the three tree pools are pairwise disjoint: before truncation no tree
\* candidate is in two of trees_conifer, trees_palm and trees_broadleaf, whatever
\* its name.
TreePoolsDisjoint ==
    Written =>
        /\ Range(TreePools.trees_conifer) \cap Range(TreePools.trees_palm) = {}
        /\ Range(TreePools.trees_conifer) \cap Range(TreePools.trees_broadleaf) = {}
        /\ Range(TreePools.trees_palm) \cap Range(TreePools.trees_broadleaf) = {}

\* the pack directories this run unpacked an archive into
ProducedPackDirs == {d \in DOMAIN packs : packs[d] \cap ZipFiles # {}}

\* C30: in the manifest a run writes, status.assets_downloaded equals
\* use_external_assets equals (status.asset_count > 0), asset_count is the number
\* of pack directories the run produced, and the warning is the fallback warning
\* exactly when asset_count is 0.
StatusBlockConsistent ==
    Written =>
        /\ manifest.status.assets_downloaded = manifest.use_external_assets
        /\ manifest.use_external_assets = (manifest.status.asset_count > 0)
        /\ manifest.status.asset_count = Cardinality(ProducedPackDirs)
        /\ manifest.status.warning = FallbackWarning <=> manifest.status.asset_count = 0
        /\ manifest.status.warning \in {FallbackWarning, OkWarning}

\* a manifest was written by a run that produced one pack directory and left
\* another one empty, its archive being unreadable
OneOfTwoPacksCounted ==
    /\ Written
    /\ manifest.status.asset_count = 1
    /\ Cardinality(DOMAIN packs) = 2
    /\ manifest.status.warning = OkWarning
====
